---------------------------- MODULE Spec2Model ----------------------------
(***************************************************************************)
(* State-machine model of the vix/cnerium async runtime kernel:            *)
(*   - scheduler (include/cnerium/core/scheduler.hpp)                       *)
(*   - task<T> and its awaiter (include/vix/async/core/task.hpp)            *)
(*   - when_all / when_any (include/vix/async/core/when.hpp)                *)
(*   - cancel_source / cancel_token (include/cnerium/core/cancel.hpp)       *)
(*   - timer (src/core/timer.cpp)                                           *)
(*   - thread_pool (src/core/thread_pool.cpp, thread_pool.hpp)              *)
(*   - signal_set (src/core/signal.cpp)                                     *)
(*   - lifetime of task frames under start(), ~task and spawn_detached     *)
(*     (task.hpp, include/vix/async/core/spawn.hpp)                         *)
(* Each component has its own specification (SpecSched, SpecTask,          *)
(* SpecAll, SpecAny, SpecCancel, SpecTimer, SpecPool, SpecSig, SpecLife);   *)
(* the variables of the other components stay at their initial values.     *)
(* SpecTimerCore is the timer without cancellation and scheduler steps,    *)
(* SpecSchedTwo the scheduler with two threads calling run(); the          *)
(* specifications named ...Fair add weak fairness of a thread's steps.     *)
(***************************************************************************)
EXTENDS Integers, Sequences, FiniteSets, TLC

\* ------------------------------------------------------------------ bounds
\* jobs posted to the scheduler in one run of the scheduler model
MaxJobs == 4
\* cancel_source objects alive in one run
NumSources == 2
\* cancel_token objects created in one run of the cancellation model
MaxTokens == 3
\* calls of after() / sleep_for() in one run of the timer model
MaxTimers == 2
\* calls of after() / sleep_for() when only the timer and its clock run
MaxCoreTimers == 3
\* the steady clock is observed up to this reading
MaxTime == 2
\* the longest duration given to after() / sleep_for()
MaxDelay == 2
\* worker threads of the thread pool
NumWorkers == 2
\* jobs submitted to the thread pool in one run
MaxPoolJobs == 2
\* async_wait calls in one run of the signal model
MaxWaits == 2
\* signals delivered to the worker's sigwait in one run
MaxDeliveries == 2

None == "none"

VARIABLES
  \* ---- scheduler (scheduler.hpp:180-185)
  q,               \* q_ : FIFO of jobs
  stop_requested,  \* stop_requested_
  running,         \* running_
  runPc,           \* position of the thread inside run()
  cur,             \* local `job j` of run()
  \* ---- observation of the scheduler's clients
  nposted,         \* per thread: how many jobs it has posted so far
  preStop,         \* ids of the jobs posted before stop() was called
  executed,        \* ids of the jobs whose fn has been started, in order
  \* ---- task<T> frames (task.hpp:33-39, 85) and the chain() program of the test
  frames,          \* frame -> promise fields and coroutine state
  active,          \* the frame that has control, None when the driver has it
  tpc,             \* position inside chain()
  tv,              \* chain(): int v
  tr,              \* chain(): int r
  drv,             \* what sync_await() obtained
  in_v,            \* input: the value compute_value() co_returns
  in_throws,       \* input: which bodies throw instead of returning
  await_log,       \* what each co_await expression produced, in order
  \* ---- when_all / when_any (when.hpp)
  w_n,             \* input: sizeof...(Ts), the number of argument tasks
  w_cfg,           \* input: per child, whether it suspends, throws, is task<void>
  all_st,          \* when_all_state
  any_st,          \* when_any_state
  w_ppc,           \* position of the when_all / when_any coroutine
  w_rpc,           \* per runner coroutine: its position
  w_cpc,           \* per child task: its position
  w_out,           \* what the awaitable's await_resume produced
  w_finish,        \* indices of the children, in the order they finished
  w_posts,         \* indices of the runners that posted the parent, in order
  w_resumes,       \* how many times the suspended parent was resumed
  \* ---- cancellation (cancel.hpp)
  c_cancelled,     \* per cancel_source: cancel_state::cancelled_
  c_tokens,        \* the cancel_token objects created so far: their st_
  c_requested,     \* the sources on which request_cancel() has been called
  \* ---- timer (timer.hpp:224-278, timer.cpp)
  now,             \* the reading of std::chrono::steady_clock
  t_q,             \* q_ : the entries, ordered by (when, id)
  t_seq,           \* seq_
  t_stop,          \* stop_
  t_pc,            \* position of the worker thread inside timer_loop()
  t_next,          \* timer_loop(): entry next
  t_info,          \* per call of after() / sleep_for(): its arguments and fate
  t_posted,        \* the calls whose job was posted, with the clock reading
  \* ---- thread pool (thread_pool.hpp:140-147, thread_pool.cpp)
  p_q,             \* q_ : FIFO of the submitted callables
  p_stop,          \* stop_
  p_wpc,           \* per worker: its position inside worker_loop()
  p_wjob,          \* per worker: the callable `fn` it has taken
  p_jobs,          \* per submitted job: its arguments, awaitable fields, fate
  \* ---- signal set (signal.hpp:57-66, signal.cpp)
  sg_signals,      \* signals_
  sg_handler,      \* on_signal_ is set
  sg_pending,      \* pending_
  sg_started,      \* started_
  sg_stop,         \* stop_
  sg_waiter,       \* waiter_
  sg_waiter_active,\* waiter_active_
  sg_pc,           \* position of the worker thread inside worker_loop()
  sg_copy,         \* worker_loop(): sigs_copy
  sg_received,     \* worker_loop(): received
  sg_step,         \* the locals of the posted delivery step being run
  sg_wait,         \* per async_wait call: its awaitable and coroutine
  sg_delivered,    \* the signals sigwait has returned, in order
  sg_handled,      \* the arguments on_signal_ was called with, in order
  \* ---- lifetime of task frames (task.hpp:42-61, 157-182)
  l_mode,          \* input: the owner starts the task or drops it unstarted
  l_cfg,           \* input: the body awaits a child task, suspends, throws
  l_fr,            \* frame -> promise fields and coroutine state
  l_owner,         \* frame -> the owning task object's h_ is non-null
  l_active,        \* the frame that has control, None when none has
  l_pc,            \* position of the code that owns the top task object
  l_destroys,      \* frame -> how often h.destroy() was called on it
  l_late,          \* frame -> resumptions and promise reads after destruction
  l_other,         \* a plain job posted after the task: "none", "queued", "ran"
  \* ---- a second thread that calls run() (scheduler.hpp:61-90)
  runPc2,          \* its position inside run(), "off" before it calls
  cur2             \* run(): its local `job j`

schedVars == <<q, stop_requested, running, runPc, cur, nposted, preStop, executed>>
taskVars == <<frames, active, tpc, tv, tr, drv, in_v, in_throws, await_log>>

whenVars == <<w_n, w_cfg, all_st, any_st, w_ppc, w_rpc, w_cpc, w_out, w_finish,
              w_posts, w_resumes>>

cancelVars == <<c_cancelled, c_tokens, c_requested>>
timerVars == <<now, t_q, t_seq, t_stop, t_pc, t_next, t_info, t_posted>>
poolVars == <<p_q, p_stop, p_wpc, p_wjob, p_jobs>>
run2Vars == <<runPc2, cur2>>
lifeVars == <<l_mode, l_cfg, l_fr, l_owner, l_active, l_pc, l_destroys, l_late,
              l_other>>
sigVars == <<sg_signals, sg_handler, sg_pending, sg_started, sg_stop, sg_waiter,
             sg_waiter_active, sg_pc, sg_copy, sg_received, sg_step, sg_wait,
             sg_delivered, sg_handled>>

\* the variables an action of one component leaves alone
notSched == <<run2Vars, lifeVars, taskVars, whenVars, cancelVars, timerVars, poolVars, sigVars>>
notTask == <<run2Vars, lifeVars, schedVars, whenVars, cancelVars, timerVars, poolVars, sigVars>>
notWhen == <<run2Vars, lifeVars, taskVars, nposted, preStop, executed, stop_requested, running,
             cancelVars, timerVars, poolVars, sigVars>>
notCancel == <<run2Vars, lifeVars, schedVars, taskVars, whenVars, timerVars, poolVars, sigVars>>
notTimer == <<run2Vars, lifeVars, taskVars, whenVars, nposted, preStop, executed, stop_requested,
              running, c_tokens, poolVars, sigVars>>
notPool == <<run2Vars, lifeVars, taskVars, whenVars, nposted, preStop, executed, stop_requested,
             running, c_tokens, timerVars, sigVars>>
notSig == <<run2Vars, lifeVars, taskVars, whenVars, nposted, preStop, executed,
            stop_requested, running, c_tokens, timerVars, poolVars>>
\* what a step of the second run() thread leaves alone besides the scheduler
notRun2 == <<lifeVars, taskVars, whenVars, cancelVars, timerVars, poolVars, sigVars>>
notLife == <<run2Vars, taskVars, whenVars, nposted, preStop, executed, stop_requested,
             running, cancelVars, timerVars, poolVars, sigVars>>

\* ---------------------------------------------------------------- scheduler
RunThread == 0
\* the external threads that call post()
Posters == {1, 2}
Threads == {RunThread} \cup Posters

\* a job: the callable of owner's n-th post; kind "handle" is the lambda of
\* post(coroutine_handle), kind "fn" an arbitrary callable that may throw
JobKinds == {[kind |-> "fn", throws |-> FALSE],
             [kind |-> "fn", throws |-> TRUE],
             [kind |-> "handle", throws |-> FALSE]}

NoJob == [owner |-> -1, n |-> 0, kind |-> "empty", throws |-> FALSE]

JobId(j) == <<j.owner, j.n>>

\* q_.emplace_back(job{fn})
EnqueueFront(queue, j) == <<j>> \o queue
Enqueue(queue, j) == Append(queue, j)

\* j = std::move(q_.front()); q_.pop_front();
PopFrontLosing(queue) == IF Len(queue) > 1 THEN Tail(Tail(queue)) ELSE Tail(queue)
PopFront(queue) == Tail(queue)

\* the cv_.wait predicate of run()
WaitForJobOnly == q # <<>>
WaitPredicate == stop_requested \/ q # <<>>

\* run() leaves its loop: the queue is empty and stop was requested
BreakOnStopOnly == stop_requested
ShouldBreak == q = <<>> /\ stop_requested

SchedInit ==
  /\ q = <<>>
  /\ stop_requested = FALSE
  /\ running = FALSE
  /\ runPc = "idle"
  /\ cur = NoJob
  /\ nposted = [t \in Threads |-> 0]
  /\ preStop = {}
  /\ executed = <<>>
  /\ runPc2 = "off"
  /\ cur2 = NoJob

TotalPosted == nposted[RunThread] + nposted[1] + nposted[2]

\* scheduler::post(fn) / post(handle), called by thread t
PostBy(t, k) ==
  /\ TotalPosted < MaxJobs
  /\ LET j == [owner |-> t, n |-> nposted[t] + 1, kind |-> k.kind, throws |-> k.throws]
     IN /\ q' = Enqueue(q, j)
        /\ preStop' = IF stop_requested THEN preStop ELSE preStop \cup {JobId(j)}
  /\ nposted' = [nposted EXCEPT ![t] = @ + 1]

\* an external thread posts
Post ==
  \E t \in Posters, k \in JobKinds :
    /\ PostBy(t, k)
    /\ UNCHANGED <<stop_requested, running, runPc, cur, executed>>
    /\ UNCHANGED notSched

\* the job being executed posts (a resumed coroutine that awaits schedule(),
\* a callable that posts a follow-up)
PostFromJob ==
  /\ runPc = "injob"
  /\ \E k \in JobKinds : PostBy(RunThread, k)
  /\ UNCHANGED <<stop_requested, running, runPc, cur, executed>>
  /\ UNCHANGED notSched

\* scheduler::stop()
Stop ==
  /\ stop_requested' = TRUE
  /\ UNCHANGED <<q, running, runPc, cur, nposted, preStop, executed>>
  /\ UNCHANGED notSched

\* run(): running_ = true
RunStart ==
  /\ runPc = "idle"
  /\ running' = TRUE
  /\ runPc' = "lock"
  /\ UNCHANGED <<q, stop_requested, cur, nposted, preStop, executed>>
  /\ UNCHANGED notSched

\* run(): the locked block: wait, then pop the front job or break
RunPop ==
  /\ runPc = "lock"
  /\ WaitPredicate
  /\ IF ShouldBreak
       THEN /\ runPc' = "exit"
            /\ UNCHANGED <<q, cur>>
       ELSE IF q # <<>>
         THEN /\ cur' = Head(q)
              /\ q' = PopFront(q)
              /\ runPc' = "exec"
         ELSE \* woken with nothing to do: j stays empty, loop again
              /\ UNCHANGED <<q, cur, runPc>>
  /\ UNCHANGED <<stop_requested, running, nposted, preStop, executed>>
  /\ UNCHANGED notSched

\* run(): if (j.fn) j.fn();  -- the job starts
RunCall ==
  /\ runPc = "exec"
  /\ runPc' = "injob"
  /\ executed' = Append(executed, JobId(cur))
  /\ UNCHANGED <<q, stop_requested, running, cur, nposted, preStop>>
  /\ UNCHANGED notSched

\* the job returns (next loop iteration) or throws (the exception leaves run())
RunJobEnd ==
  /\ runPc = "injob"
  /\ runPc' = IF cur.throws THEN "threw" ELSE "lock"
  /\ cur' = NoJob
  /\ UNCHANGED <<q, stop_requested, running, nposted, preStop, executed>>
  /\ UNCHANGED notSched

\* run(): running_ = false; return
RunReturn ==
  /\ runPc = "exit"
  /\ running' = FALSE
  /\ runPc' = "returned"
  /\ UNCHANGED <<q, stop_requested, cur, nposted, preStop, executed>>
  /\ UNCHANGED notSched

\* a second thread calls run() on the same scheduler: running_ = true
Run2Start ==
  /\ runPc2 = "off"
  /\ running' = TRUE
  /\ runPc2' = "lock"
  /\ UNCHANGED <<q, stop_requested, runPc, cur, cur2, nposted, preStop, executed>>
  /\ UNCHANGED notRun2

\* run() on the second thread: the locked block
Run2Pop ==
  /\ runPc2 = "lock"
  /\ WaitPredicate
  /\ IF ShouldBreak
       THEN /\ runPc2' = "exit"
            /\ UNCHANGED <<q, cur2>>
       ELSE IF q # <<>>
         THEN /\ cur2' = Head(q)
              /\ q' = PopFront(q)
              /\ runPc2' = "exec"
         ELSE /\ UNCHANGED <<q, cur2, runPc2>>
  /\ UNCHANGED <<stop_requested, running, runPc, cur, nposted, preStop, executed>>
  /\ UNCHANGED notRun2

\* run() on the second thread: j.fn() is entered
Run2Call ==
  /\ runPc2 = "exec"
  /\ runPc2' = "injob"
  /\ executed' = Append(executed, JobId(cur2))
  /\ UNCHANGED <<q, stop_requested, running, runPc, cur, cur2, nposted, preStop>>
  /\ UNCHANGED notRun2

\* run() on the second thread: the job returns or throws
Run2JobEnd ==
  /\ runPc2 = "injob"
  /\ runPc2' = IF cur2.throws THEN "threw" ELSE "lock"
  /\ cur2' = NoJob
  /\ UNCHANGED <<q, stop_requested, running, runPc, cur, nposted, preStop, executed>>
  /\ UNCHANGED notRun2

\* run() on the second thread: running_ = false; return
Run2Return ==
  /\ runPc2 = "exit"
  /\ running' = FALSE
  /\ runPc2' = "returned"
  /\ UNCHANGED <<q, stop_requested, runPc, cur, cur2, nposted, preStop, executed>>
  /\ UNCHANGED notRun2

\* the steps of the thread that calls run()
RunThreadSteps ==
  \/ RunStart
  \/ RunPop
  \/ RunCall
  \/ RunJobEnd
  \/ RunReturn

SchedNext ==
  \/ Post
  \/ PostFromJob
  \/ Stop
  \/ RunStart
  \/ RunPop
  \/ RunCall
  \/ RunJobEnd
  \/ RunReturn


\* --------------------------------------------------------------------- task
\* largest value compute_value() is given to return (besides the test's 42)
MaxVal == 2
TestValue == 42
InputValues == (0 .. MaxVal) \cup {TestValue}

Chain == "chain"
Compute == "compute_value"
AddOne == "add_one"
Children == {Compute, AddOne}
FrameIds == {Chain} \cup Children

\* the exception object a body throws
ExcOf(f) == <<"exc", f>>

NoFrame == [st |-> "absent", continuation |-> None, exception |-> None,
            value |-> None, detached |-> FALSE]

\* a coroutine just created: promise_common's members, suspended at
\* initial_suspend (suspend_always)
NewFrameRunning == [st |-> "running", continuation |-> None, exception |-> None,
                    value |-> None, detached |-> FALSE]
NewFrame == [st |-> "initial", continuation |-> None, exception |-> None,
             value |-> None, detached |-> FALSE]

\* task_awaiter::await_ready: !h || h.done()
AwaitReady(p) == p.st = "absent" \/ p.st = "final"

\* task_awaiter::await_resume: rethrow the stored exception, else move the value out
AwaitResumeIgnoringException(p) == [kind |-> "value", val |-> p.value]
AwaitResume(p) ==
  IF p.exception # None
    THEN [kind |-> "exc", val |-> p.exception]
    ELSE [kind |-> "value", val |-> p.value]

\* promise_value::return_value / promise_common::unhandled_exception
ReturnValue(p, v) == [p EXCEPT !.value = v, !.st = "atfinal"]
UnhandledException(p, e) == [p EXCEPT !.exception = e, !.st = "atfinal"]

\* final_awaiter::await_suspend: who gets control next
FinalTarget(p) == IF p.continuation # None THEN p.continuation ELSE None

\* final_awaiter::await_suspend: a detached frame without continuation destroys itself
AfterFinalAlwaysDestroys(p) == [p EXCEPT !.st = "destroyed"]
AfterFinal(p) ==
  IF p.continuation = None /\ p.detached
    THEN [p EXCEPT !.st = "destroyed"]
    ELSE [p EXCEPT !.st = "final"]

\* what add_one(x) computes
AddOneBody(x) == x + 1

TaskIdle ==
  /\ frames = [f \in FrameIds |-> NoFrame]
  /\ active = None
  /\ tpc = "idle"
  /\ tv = None
  /\ tr = None
  /\ drv = [kind |-> "none", val |-> None]
  /\ in_v = 0
  /\ in_throws = {}
  /\ await_log = <<>>

\* chain() has been called: its frame exists and is suspended at initial_suspend
TaskInit ==
  /\ frames = [f \in FrameIds |-> IF f = Chain THEN NewFrame ELSE NoFrame]
  /\ active = None
  /\ tpc = "start"
  /\ tv = None
  /\ tr = None
  /\ drv = [kind |-> "none", val |-> None]
  /\ in_v \in InputValues
  /\ in_throws \in SUBSET Children
  /\ await_log = <<>>

\* sync_await: while (!h.done()) h.resume();
DriverResume ==
  /\ active = None
  /\ drv.kind = "none"
  /\ frames[Chain].st = "initial"
  /\ frames' = [frames EXCEPT ![Chain].st = "running"]
  /\ active' = Chain
  /\ UNCHANGED <<tpc, tv, tr, drv, in_v, in_throws, await_log>>
  /\ UNCHANGED notTask

\* chain(): `co_await child(...)`: create the child, then task_awaiter:
\* await_ready is false for a fresh child, await_suspend stores the
\* continuation and transfers to the child
CallAndAwait(c, nextPc) ==
  /\ active = Chain
  /\ frames[Chain].st = "running"
  /\ LET created == [frames EXCEPT ![c] = NewFrame] IN
       IF AwaitReady(created[c])
         THEN /\ frames' = created
              /\ active' = Chain
         ELSE /\ frames' = [created EXCEPT ![c].continuation = Chain,
                                           ![c].st = "running",
                                           ![Chain].st = "awaiting"]
              /\ active' = c
  /\ tpc' = nextPc
  /\ UNCHANGED <<tv, tr, drv, in_v, in_throws, await_log>>
  /\ UNCHANGED notTask

ChainAwaitCompute ==
  /\ tpc = "start"
  /\ CallAndAwait(Compute, "await1")

ChainAwaitAddOne ==
  /\ tpc = "call2"
  /\ CallAndAwait(AddOne, "await2")

\* the body of compute_value() / add_one(x): co_return or throw
ChildBody ==
  /\ active \in Children
  /\ frames[active].st = "running"
  /\ LET c == active
         result == IF c = Compute THEN in_v ELSE AddOneBody(tv)
     IN frames' = [frames EXCEPT ![c] =
                     IF c \in in_throws
                       THEN UnhandledException(@, ExcOf(c))
                       ELSE ReturnValue(@, result)]
  /\ UNCHANGED <<active, tpc, tv, tr, drv, in_v, in_throws, await_log>>
  /\ UNCHANGED notTask

\* final_suspend of the frame in control
FinalSuspend ==
  /\ active # None
  /\ frames[active].st = "atfinal"
  /\ LET f == active
         target == FinalTarget(frames[f])
     IN /\ frames' = [g \in FrameIds |->
                        IF g = f THEN AfterFinal(frames[f])
                        ELSE IF g = target THEN [frames[g] EXCEPT !.st = "running"]
                        ELSE frames[g]]
        /\ active' = target
  /\ UNCHANGED <<tpc, tv, tr, drv, in_v, in_throws, await_log>>
  /\ UNCHANGED notTask

\* chain() resumes after a co_await: await_resume, then the temporary task is
\* destroyed; an exception is not caught by chain() and lands in its promise
ChainAwaitResume(c, store1, nextPc) ==
  /\ active = Chain
  /\ frames[Chain].st = "running"
  /\ LET got == AwaitResume(frames[c]) IN
       /\ await_log' = Append(await_log, [child |-> c, got |-> got])
       /\ IF got.kind = "exc"
            THEN /\ frames' = [frames EXCEPT ![c].st = "destroyed",
                                 ![Chain] = UnhandledException(@, got.val)]
                 /\ tpc' = "done"
                 /\ UNCHANGED <<tv, tr>>
            ELSE /\ frames' = [frames EXCEPT ![c].st = "destroyed"]
                 /\ tpc' = nextPc
                 /\ IF store1 THEN tv' = got.val /\ tr' = tr
                              ELSE tr' = got.val /\ tv' = tv
  /\ UNCHANGED <<active, drv, in_v, in_throws>>
  /\ UNCHANGED notTask

ChainResume1 ==
  /\ tpc = "await1"
  /\ ChainAwaitResume(Compute, TRUE, "call2")

ChainResume2 ==
  /\ tpc = "await2"
  /\ ChainAwaitResume(AddOne, FALSE, "ret")

\* chain(): co_return r;
ChainReturn ==
  /\ active = Chain
  /\ tpc = "ret"
  /\ frames[Chain].st = "running"
  /\ frames' = [frames EXCEPT ![Chain] = ReturnValue(@, tr)]
  /\ tpc' = "done"
  /\ UNCHANGED <<active, tv, tr, drv, in_v, in_throws, await_log>>
  /\ UNCHANGED notTask

\* sync_await: the loop ends, the promise is read, the task object is destroyed
DriverFinish ==
  /\ active = None
  /\ drv.kind = "none"
  /\ frames[Chain].st = "final"
  /\ drv' = AwaitResume(frames[Chain])
  /\ frames' = [frames EXCEPT ![Chain].st = "destroyed"]
  /\ UNCHANGED <<active, tpc, tv, tr, in_v, in_throws, await_log>>
  /\ UNCHANGED notTask

TaskNext ==
  \/ DriverResume
  \/ ChainAwaitCompute
  \/ ChainAwaitAddOne
  \/ ChildBody
  \/ FinalSuspend
  \/ ChainResume1
  \/ ChainResume2
  \/ ChainReturn
  \/ DriverFinish


\* ------------------------------------------------------- when_all / when_any
\* most argument tasks given to one when_all / when_any
MaxChildren == 3

\* index{static_cast<std::size_t>(-1)}
NoIndex == -1

Unit == "monostate"
Parent == <<"parent">>
RunnerH(i) == <<"runner", i>>
ChildH(i) == <<"child", i>>
\* the job post(coroutine_handle) makes: a lambda resuming h
HandleJob(h) == [owner |-> h, n |-> 0, kind |-> "handle", throws |-> FALSE]

Indices == 0 .. (w_n - 1)

\* the value the i-th argument task co_returns (immediate(10), immediate(20), ...)
ChildValue(i) == IF w_cfg[i].void THEN Unit ELSE 10 * (i + 1)

\* the promise of the finished i-th argument task
ChildPromise(i) ==
  IF w_cfg[i].throws
    THEN UnhandledException(NewFrame, ExcOf(i))
    ELSE ReturnValue(NewFrame, ChildValue(i))

\* start_all: start_one for every index in order; start() posts the runner
StartAllFirstOnly(queue, i, n) ==
  IF i >= n THEN queue ELSE Enqueue(queue, HandleJob(RunnerH(i)))
StartAllReversed(queue, i, n) ==
  queue \o [k \in 1 .. (n - i) |-> HandleJob(RunnerH(n - k))]
RECURSIVE StartAll(_, _, _)
StartAll(queue, i, n) ==
  IF i >= n THEN queue ELSE StartAll(Enqueue(queue, HandleJob(RunnerH(i))), i + 1, n)

\* the slot a runner stores its child's result into: std::get<I>(st->results)
StoreIndexByCompletion(i) == Len(w_finish)
StoreIndex(i) == i

\* catch (...) { if (!st->first_ex) st->first_ex = current_exception(); }
CaptureLast(held, e) == e
CaptureFirst(held, e) == IF held = None THEN e ELSE held

\* when_all_runner: remaining.fetch_sub(1) == 1
WasLastAlways(old) == TRUE
WasLast(old) == old = 1

\* when_any_runner: done.compare_exchange_strong(expected = false, true)
CompareExchangeAlways(done) == TRUE
CompareExchange(done) == done = FALSE

\* when_any_runner: st->index = I, inside the branch of the CAS winner
IndexAfterAlways(won, old, i) == i
IndexAfter(won, old, i) == IF won THEN i ELSE old

\* materialize_one: a void slot gives monostate, another slot is dereferenced
MaterializeOne(slot, isVoid) == IF isVoid THEN Unit ELSE slot

\* when_all_awaitable::await_resume
AllAwaitResume(st) ==
  IF st.first_ex # None
    THEN [kind |-> "exc", val |-> st.first_ex]
    ELSE [kind |-> "value",
          val |-> [i \in DOMAIN st.results |-> MaterializeOne(st.results[i], w_cfg[i].void)]]

\* when_any_awaitable::await_resume
AnyAwaitResume(st) ==
  IF st.ex # None
    THEN [kind |-> "exc", val |-> st.ex]
    ELSE [kind |-> "value", val |-> [index |-> st.index, slots |-> st.results]]

NoAllState == [remaining |-> 0, cont |-> None, first_ex |-> None, results |-> <<>>]
NoAnyState == [done |-> FALSE, cont |-> None, ex |-> None, index |-> NoIndex,
               results |-> <<>>]

ChildConfigs == [suspends : BOOLEAN, throws : BOOLEAN, void : BOOLEAN]

WhenIdle ==
  /\ w_n = 0
  /\ w_cfg = <<>>
  /\ all_st = NoAllState
  /\ any_st = NoAnyState
  /\ w_ppc = "idle"
  /\ w_rpc = <<>>
  /\ w_cpc = <<>>
  /\ w_out = [kind |-> "none", val |-> None]
  /\ w_finish = <<>>
  /\ w_posts = <<>>
  /\ w_resumes = 0

\* when_all(sched, ts...) / when_any(sched, ts...) has been called with n tasks
WhenInit ==
  /\ w_n \in 0 .. MaxChildren
  /\ w_cfg \in [0 .. (w_n - 1) -> ChildConfigs]
  /\ all_st = NoAllState
  /\ any_st = NoAnyState
  /\ w_ppc = "fresh"
  /\ w_rpc = [i \in 0 .. (w_n - 1) |-> "none"]
  /\ w_cpc = [i \in 0 .. (w_n - 1) |-> "unstarted"]
  /\ w_out = [kind |-> "none", val |-> None]
  /\ w_finish = <<>>
  /\ w_posts = <<>>
  /\ w_resumes = 0

\* the scheduler thread has popped handle h and is about to resume it
Resuming(h) == runPc = "injob" /\ cur = HandleJob(h)

\* the resumed coroutine suspends or ends: the job returns to run()
JobReturns == runPc' = "lock" /\ cur' = NoJob

\* when_all / when_any: co_await sched.schedule(): the coroutine posts itself
WhenSchedule ==
  /\ w_ppc = "fresh"
  /\ w_ppc' = "scheduled"
  /\ q' = Enqueue(q, HandleJob(Parent))
  /\ UNCHANGED <<w_n, w_cfg, all_st, any_st, w_rpc, w_cpc, w_out, w_finish,
                 w_posts, w_resumes, runPc, cur>>
  /\ UNCHANGED notWhen

\* whoever a suspended child waits for (a timer thread, schedule()) posts it
ChildWake(i) ==
  /\ w_cpc[i] = "suspended"
  /\ w_cpc' = [w_cpc EXCEPT ![i] = "woken"]
  /\ q' = Enqueue(q, HandleJob(ChildH(i)))
  /\ UNCHANGED <<w_n, w_cfg, all_st, any_st, w_ppc, w_rpc, w_out, w_finish,
                 w_posts, w_resumes, runPc, cur>>
  /\ UNCHANGED notWhen

\* a runner starts: co_await t transfers to the child, which suspends
RunnerStartSuspends(i) ==
  /\ Resuming(RunnerH(i))
  /\ w_rpc[i] = "posted"
  /\ w_cfg[i].suspends
  /\ w_rpc' = [w_rpc EXCEPT ![i] = "awaiting"]
  /\ w_cpc' = [w_cpc EXCEPT ![i] = "suspended"]
  /\ JobReturns
  /\ UNCHANGED <<w_n, w_cfg, all_st, any_st, w_ppc, w_out, w_finish, w_posts,
                 w_resumes, q>>
  /\ UNCHANGED notWhen

\* ---- when_all

\* when_all_awaitable::await_suspend: the state is made, every runner started
AllLaunch ==
  /\ Resuming(Parent)
  /\ w_ppc = "scheduled"
  /\ all_st' = [remaining |-> w_n, cont |-> Parent, first_ex |-> None,
                results |-> [i \in Indices |-> None]]
  /\ q' = StartAll(q, 0, w_n)
  /\ w_rpc' = [i \in Indices |-> "posted"]
  /\ w_ppc' = "waiting"
  /\ JobReturns
  /\ UNCHANGED <<w_n, w_cfg, any_st, w_cpc, w_out, w_finish, w_posts, w_resumes>>
  /\ UNCHANGED notWhen

\* when_all_runner after `co_await t`: store or capture, count down, and the
\* last one posts the continuation; then the detached runner ends
AllRunnerFinish(i) ==
  LET got == AwaitResume(ChildPromise(i))
      old == all_st.remaining
  IN /\ all_st' = [all_st EXCEPT
                     !.results = IF got.kind = "value"
                                   THEN [@ EXCEPT ![StoreIndex(i)] = got.val]
                                   ELSE @,
                     !.first_ex = IF got.kind = "exc"
                                    THEN CaptureFirst(@, got.val)
                                    ELSE @,
                     !.remaining = old - 1]
     /\ IF WasLast(old)
          THEN /\ q' = Enqueue(q, HandleJob(all_st.cont))
               /\ w_posts' = Append(w_posts, i)
          ELSE UNCHANGED <<q, w_posts>>
     /\ w_finish' = Append(w_finish, i)
     /\ w_rpc' = [w_rpc EXCEPT ![i] = "done"]
     /\ w_cpc' = [w_cpc EXCEPT ![i] = "done"]
     /\ JobReturns
     /\ UNCHANGED <<w_n, w_cfg, any_st, w_ppc, w_out, w_resumes>>
     /\ UNCHANGED notWhen

\* a runner starts and its child finishes without suspending
AllRunnerStartImmediate(i) ==
  /\ Resuming(RunnerH(i))
  /\ w_rpc[i] = "posted"
  /\ ~w_cfg[i].suspends
  /\ AllRunnerFinish(i)

\* a woken child is resumed, finishes, and hands control to its runner
AllChildResume(i) ==
  /\ Resuming(ChildH(i))
  /\ w_cpc[i] = "woken"
  /\ AllRunnerFinish(i)

\* the posted continuation runs: when_all_awaitable::await_resume
AllParentResume ==
  /\ Resuming(Parent)
  /\ w_ppc \in {"waiting", "resumed"}
  /\ w_out' = AllAwaitResume(all_st)
  /\ w_ppc' = "resumed"
  /\ w_resumes' = w_resumes + 1
  /\ JobReturns
  /\ UNCHANGED <<w_n, w_cfg, all_st, any_st, w_rpc, w_cpc, w_finish, w_posts, q>>
  /\ UNCHANGED notWhen

\* ---- when_any

\* when_any_awaitable::await_suspend
AnyLaunch ==
  /\ Resuming(Parent)
  /\ w_ppc = "scheduled"
  /\ any_st' = [done |-> FALSE, cont |-> Parent, ex |-> None, index |-> NoIndex,
                results |-> [i \in Indices |-> None]]
  /\ q' = StartAll(q, 0, w_n)
  /\ w_rpc' = [i \in Indices |-> "posted"]
  /\ w_ppc' = "waiting"
  /\ JobReturns
  /\ UNCHANGED <<w_n, w_cfg, all_st, w_cpc, w_out, w_finish, w_posts, w_resumes>>
  /\ UNCHANGED notWhen

\* when_any_runner after `co_await t`: store or capture, then the CAS; the
\* winner writes the index and posts the continuation
AnyRunnerFinish(i) ==
  LET got == AwaitResume(ChildPromise(i))
      won == CompareExchange(any_st.done)
  IN /\ any_st' = [any_st EXCEPT
                     !.results = IF got.kind = "value"
                                   THEN [@ EXCEPT ![StoreIndex(i)] = got.val]
                                   ELSE @,
                     !.ex = IF got.kind = "exc" THEN CaptureFirst(@, got.val) ELSE @,
                     !.done = TRUE,
                     !.index = IndexAfter(won, @, i)]
     /\ IF won
          THEN /\ q' = Enqueue(q, HandleJob(any_st.cont))
               /\ w_posts' = Append(w_posts, i)
          ELSE UNCHANGED <<q, w_posts>>
     /\ w_finish' = Append(w_finish, i)
     /\ w_rpc' = [w_rpc EXCEPT ![i] = "done"]
     /\ w_cpc' = [w_cpc EXCEPT ![i] = "done"]
     /\ JobReturns
     /\ UNCHANGED <<w_n, w_cfg, all_st, w_ppc, w_out, w_resumes>>
     /\ UNCHANGED notWhen

AnyRunnerStartImmediate(i) ==
  /\ Resuming(RunnerH(i))
  /\ w_rpc[i] = "posted"
  /\ ~w_cfg[i].suspends
  /\ AnyRunnerFinish(i)

AnyChildResume(i) ==
  /\ Resuming(ChildH(i))
  /\ w_cpc[i] = "woken"
  /\ AnyRunnerFinish(i)

\* slot i of st->results has been emplaced: child i finished with a value
Populated(i) == (\E k \in DOMAIN w_finish : w_finish[k] = i) /\ ~w_cfg[i].throws

\* what *slot does on an empty std::optional: it yields whatever the storage
\* holds, or the library's assertion ends the program
UndefinedReads == {"garbage", "abort"}

\* materialize_tuple over the slots await_resume returned: the slots
\* materialize_one dereferences although they are empty
EmptyReads == {i \in Indices : ~w_cfg[i].void /\ ~Populated(i)}

\* when_any after its co_await: r.first = idx; r.second = materialize_tuple(raw)
\* emptyread: the empty slots that were dereferenced; undefined: what that
\* undefined read did; out: the tuple where it is defined
AnyMaterialize(got, u) ==
  IF got.kind # "value" THEN got
  ELSE [kind |-> "value",
        val |-> [index |-> got.val.index,
                 slots |-> got.val.slots,
                 emptyread |-> EmptyReads,
                 undefined |-> IF EmptyReads = {} THEN "no" ELSE u,
                 out |-> [i \in Indices |->
                            IF i \in EmptyReads THEN None
                            ELSE MaterializeOne(got.val.slots[i], w_cfg[i].void)]]]

\* the posted continuation runs: when_any_awaitable::await_resume, then the
\* rest of when_any's body
AnyParentResume ==
  /\ Resuming(Parent)
  /\ w_ppc \in {"waiting", "resumed"}
  /\ \E u \in UndefinedReads : w_out' = AnyMaterialize(AnyAwaitResume(any_st), u)
  /\ w_ppc' = "resumed"
  /\ w_resumes' = w_resumes + 1
  /\ JobReturns
  /\ UNCHANGED <<w_n, w_cfg, all_st, any_st, w_rpc, w_cpc, w_finish, w_posts, q>>
  /\ UNCHANGED notWhen

\* the scheduler thread of the combinators: run() without a stop() request
WhenSched ==
  \/ RunStart
  \/ RunPop
  \/ RunCall

AllNext ==
  \/ WhenSched
  \/ WhenSchedule
  \/ AllLaunch
  \/ \E i \in Indices : ChildWake(i)
  \/ \E i \in Indices : RunnerStartSuspends(i)
  \/ \E i \in Indices : AllRunnerStartImmediate(i)
  \/ \E i \in Indices : AllChildResume(i)
  \/ AllParentResume

AnyNext ==
  \/ WhenSched
  \/ WhenSchedule
  \/ AnyLaunch
  \/ \E i \in Indices : ChildWake(i)
  \/ \E i \in Indices : RunnerStartSuspends(i)
  \/ \E i \in Indices : AnyRunnerStartImmediate(i)
  \/ \E i \in Indices : AnyChildResume(i)
  \/ AnyParentResume


\* ------------------------------------------------------------- cancellation
Sources == 1 .. NumSources

\* the null shared_ptr<cancel_state> of a default-constructed token
NoState == 0

\* cancel_state::request_cancel(): cancelled_.store(true)
StoredToggled(old) == ~old
StoredByRequest(old) == TRUE

\* cancel_state::is_cancelled(): cancelled_.load()
StateIsCancelled(s) == c_cancelled[s]

\* cancel_token::can_cancel(): static_cast<bool>(st_)
CanCancel(st) == st # NoState

\* cancel_token::is_cancelled(): st_ ? st_->is_cancelled() : false
TokenIsCancelled(st) == IF st # NoState THEN StateIsCancelled(st) ELSE FALSE

\* cancel_source::is_cancelled(): st_ ? st_->is_cancelled() : false
SourceIsCancelled(s) == StateIsCancelled(s)

\* every cancel_source has been constructed: make_shared<cancel_state>()
CancelIdle ==
  /\ c_cancelled = [s \in Sources |-> FALSE]
  /\ c_tokens = <<>>
  /\ c_requested = {}

\* cancel_token{} : st_ is null
DefaultToken ==
  /\ Len(c_tokens) < MaxTokens
  /\ c_tokens' = Append(c_tokens, NoState)
  /\ UNCHANGED <<c_cancelled, c_requested>>
  /\ UNCHANGED notCancel

\* cancel_source::token(): cancel_token{st_}
SourceToken ==
  \E s \in Sources :
    /\ Len(c_tokens) < MaxTokens
    /\ c_tokens' = Append(c_tokens, s)
    /\ UNCHANGED <<c_cancelled, c_requested>>
    /\ UNCHANGED notCancel

\* cancel_source::request_cancel(): if (st_) st_->request_cancel()
RequestCancelOn(s) ==
  /\ c_cancelled' = [c_cancelled EXCEPT ![s] = StoredByRequest(@)]
  /\ c_requested' = c_requested \cup {s}
  /\ UNCHANGED c_tokens

RequestCancel ==
  \E s \in Sources :
    /\ RequestCancelOn(s)
    /\ UNCHANGED notCancel

CancelNext ==
  \/ DefaultToken
  \/ SourceToken
  \/ RequestCancel


\* -------------------------------------------------------------------- timer
\* the tokens handed to the timer: a default one, or one of source 1
TimerTokens == {NoState, 1}
TimerKinds == {"after", "sleep"}
Delays == 0 .. MaxDelay

NoEntry == [when |-> 0, id |-> 0, ct |-> NoState, call |-> 0]

\* timer::cmp: by deadline, then by id
CmpLaterIdFirst(a, b) == IF a.when # b.when THEN a.when < b.when ELSE a.id > b.id
Cmp(a, b) == IF a.when # b.when THEN a.when < b.when ELSE a.id < b.id

\* q_.begin()
Begin(queue) == CHOOSE e \in queue : \A f \in queue : f = e \/ Cmp(e, f)

\* timer_loop(): now >= next.when, also the timeout of wait_until
DeadlineIgnored(clock, when) == TRUE
DeadlineReached(clock, when) == clock >= when

\* timer_loop(): if (next.ct.is_cancelled()) continue;
FirePosted(ct) == FALSE
FireSuppressed(ct) == TokenIsCancelled(ct)

\* timer_loop(): the held entry is inserted back, the earlier q_.begin() erased
SwapDropsHeld(queue, held) == queue \ {Begin(queue)}
SwapQueue(queue, held) == (queue \ {Begin(queue)}) \cup {held}

\* timer::schedule: if (stop_) return;
ScheduleAlways(stopped) == TRUE
ScheduleAccepts(stopped) == ~stopped

\* the job of call c as the scheduler sees it: the lambda given to ctx_post
TimerJob(c) == [owner |-> <<"timer", c>>, n |-> 0, kind |-> "fn", throws |-> FALSE]

\* sleep_for's awaitable::await_ready
SleepNeverReady(d) == FALSE
SleepAwaitReady(d) == d = 0

\* sleep_for's awaitable::await_resume
SleepAwaitResume(ct) == IF TokenIsCancelled(ct) THEN "canceled" ELSE "done"

TimerIdle ==
  /\ now = 0
  /\ t_q = {}
  /\ t_seq = 0
  /\ t_stop = FALSE
  /\ t_pc = "off"
  /\ t_next = NoEntry
  /\ t_info = <<>>
  /\ t_posted = <<>>

\* timer(ctx): the worker thread has been started
TimerInit ==
  /\ now = 0
  /\ t_q = {}
  /\ t_seq = 0
  /\ t_stop = FALSE
  /\ t_pc = "wait"
  /\ t_next = NoEntry
  /\ t_info = <<>>
  /\ t_posted = <<>>

\* the steady clock advances
Tick ==
  /\ now < MaxTime
  /\ now' = now + 1
  /\ UNCHANGED <<t_q, t_seq, t_stop, t_pc, t_next, t_info, t_posted>>
  /\ UNCHANGED <<q, runPc, cur, c_cancelled, c_requested>>
  /\ UNCHANGED notTimer

\* timer::schedule(tp, j, ct) as called by after(d, fn, ct) with tp = now + d
\* and by sleep_for's await_suspend; sleep_for with d = 0 is ready at once
\* and goes straight to await_resume
TimerCallOf(tokens, limit) ==
  \E kind \in TimerKinds, d \in Delays, ct \in tokens :
    /\ Len(t_info) < limit
    /\ LET c == Len(t_info) + 1
           ready == kind = "sleep" /\ SleepAwaitReady(d)
           accepted == ~ready /\ ScheduleAccepts(t_stop)
           e == [when |-> now + d, id |-> t_seq + 1, ct |-> ct, call |-> c]
       IN /\ t_info' = Append(t_info,
                [kind |-> kind, d |-> d, at |-> now, when |-> now + d, ct |-> ct,
                 id |-> IF accepted THEN t_seq + 1 ELSE 0,
                 st |-> IF kind = "after" THEN "callback"
                        ELSE IF ready THEN SleepAwaitResume(ct) ELSE "suspended",
                 early |-> FALSE,
                 overtook |-> IF accepted /\ t_pc = "sleeping" /\ e.when < t_next.when
                                THEN t_next.call ELSE 0,
                 checked |-> "no",
                 putback |-> FALSE,
                 ran |-> 0])
          /\ IF accepted
               THEN /\ t_seq' = t_seq + 1
                    /\ t_q' = t_q \cup {e}
               ELSE UNCHANGED <<t_seq, t_q>>
    /\ UNCHANGED <<now, t_stop, t_pc, t_next, t_posted>>
    /\ UNCHANGED <<q, runPc, cur, c_cancelled, c_requested>>
    /\ UNCHANGED notTimer

TimerCall == TimerCallOf(TimerTokens, MaxTimers)

\* timer::stop()
TimerStop ==
  /\ t_stop' = TRUE
  /\ t_q' = {}
  /\ UNCHANGED <<now, t_seq, t_pc, t_next, t_info, t_posted>>
  /\ UNCHANGED <<q, runPc, cur, c_cancelled, c_requested>>
  /\ UNCHANGED notTimer

\* request_cancel() on the source of the tokens given to the timer; `early`
\* notes the calls whose deadline has not been reached at that moment
TimerRequestCancel ==
  /\ RequestCancelOn(1)
  /\ t_info' = [c \in DOMAIN t_info |->
                  IF t_info[c].ct = 1 /\ now < t_info[c].when
                    THEN [t_info[c] EXCEPT !.early = TRUE]
                    ELSE t_info[c]]
  /\ UNCHANGED <<now, t_q, t_seq, t_stop, t_pc, t_next, t_posted>>
  /\ UNCHANGED <<q, runPc, cur>>
  /\ UNCHANGED notTimer

\* timer_loop(): cv_.wait(stop_ || !q_.empty()), then break or take q_.begin()
TimerTake ==
  /\ t_pc = "wait"
  /\ t_stop \/ t_q # {}
  /\ IF t_stop
       THEN /\ t_pc' = "exit"
            /\ UNCHANGED <<t_q, t_next>>
       ELSE /\ t_next' = Begin(t_q)
            /\ t_q' = t_q \ {Begin(t_q)}
            /\ t_pc' = "check"
  /\ UNCHANGED <<now, t_seq, t_stop, t_info, t_posted>>
  /\ UNCHANGED <<q, runPc, cur, c_cancelled, c_requested>>
  /\ UNCHANGED notTimer

\* timer_loop(): auto now = clock::now(); if (now >= next.when) break;
TimerCheck ==
  /\ t_pc = "check"
  /\ t_pc' = IF DeadlineReached(now, t_next.when) THEN "fire" ELSE "locked"
  /\ UNCHANGED <<now, t_q, t_seq, t_stop, t_next, t_info, t_posted>>
  /\ UNCHANGED <<q, runPc, cur, c_cancelled, c_requested>>
  /\ UNCHANGED notTimer

\* timer_loop(): under the lock: return on stop_, swap with an earlier
\* q_.begin(), or start cv_.wait_until(lock, next.when, [&]{ return stop_; })
TimerLocked ==
  /\ t_pc = "locked"
  /\ IF t_stop
       THEN /\ t_pc' = "exit"
            /\ UNCHANGED <<t_q, t_next, t_info>>
       ELSE IF t_q # {} /\ Begin(t_q).when < t_next.when
         THEN /\ t_next' = Begin(t_q)
              /\ t_q' = SwapQueue(t_q, t_next)
              /\ t_info' = [t_info EXCEPT ![t_next.call].putback = TRUE]
              /\ t_pc' = "check"
         ELSE /\ t_pc' = "sleeping"
              /\ UNCHANGED <<t_q, t_next, t_info>>
  /\ UNCHANGED <<now, t_seq, t_stop, t_posted>>
  /\ UNCHANGED <<q, runPc, cur, c_cancelled, c_requested>>
  /\ UNCHANGED notTimer

\* timer_loop(): wait_until returns: its predicate stop_ holds or next.when
\* has passed; a notification without stop_ leaves the worker waiting
TimerWake ==
  /\ t_pc = "sleeping"
  /\ t_stop \/ DeadlineReached(now, t_next.when)
  /\ t_pc' = IF t_stop THEN "exit" ELSE "check"
  /\ UNCHANGED <<now, t_q, t_seq, t_stop, t_next, t_info, t_posted>>
  /\ UNCHANGED <<q, runPc, cur, c_cancelled, c_requested>>
  /\ UNCHANGED notTimer

\* timer_loop(): if (next.ct.is_cancelled()) continue;
TimerFire ==
  /\ t_pc = "fire"
  /\ t_info' = [t_info EXCEPT ![t_next.call].checked =
                  IF TokenIsCancelled(t_next.ct) THEN "cancelled" ELSE "live"]
  /\ IF FireSuppressed(t_next.ct)
       THEN /\ t_pc' = "wait"
            /\ t_next' = NoEntry
       ELSE /\ t_pc' = "post"
            /\ UNCHANGED t_next
  /\ UNCHANGED <<now, t_q, t_seq, t_stop, t_posted>>
  /\ UNCHANGED <<q, runPc, cur, c_cancelled, c_requested>>
  /\ UNCHANGED notTimer

\* timer_loop(): ctx_post([j]() { j->run(); })
TimerPost ==
  /\ t_pc = "post"
  /\ q' = Enqueue(q, TimerJob(t_next.call))
  /\ t_posted' = Append(t_posted, [call |-> t_next.call, at |-> now])
  /\ t_pc' = "wait"
  /\ t_next' = NoEntry
  /\ UNCHANGED <<now, t_q, t_seq, t_stop, t_info>>
  /\ UNCHANGED <<runPc, cur, c_cancelled, c_requested>>
  /\ UNCHANGED notTimer

\* the scheduler runs the posted job: fn() of after(), or h.resume() of
\* sleep_for, whose await_resume completes the sleeping coroutine
TimerJobRun ==
  \E c \in DOMAIN t_info :
    /\ runPc = "injob"
    /\ cur = TimerJob(c)
    /\ t_info' = [t_info EXCEPT
                    ![c].ran = @ + 1,
                    ![c].st = IF t_info[c].kind = "sleep"
                                THEN SleepAwaitResume(t_info[c].ct) ELSE @]
    /\ JobReturns
    /\ UNCHANGED <<now, t_q, t_seq, t_stop, t_pc, t_next, t_posted>>
    /\ UNCHANGED <<q, c_cancelled, c_requested>>
    /\ UNCHANGED notTimer

\* the steps of the timer's worker thread (timer_loop)
TimerWorker ==
  \/ TimerTake
  \/ TimerCheck
  \/ TimerLocked
  \/ TimerWake
  \/ TimerFire
  \/ TimerPost

\* after() / sleep_for() with default tokens
TimerCoreCall == TimerCallOf({NoState}, MaxCoreTimers)

\* the timer alone: its callers, the clock, stop() and the worker
TimerCoreNext ==
  \/ Tick
  \/ TimerCoreCall
  \/ TimerStop
  \/ TimerWorker

TimerNext ==
  \/ WhenSched
  \/ Tick
  \/ TimerCall
  \/ TimerStop
  \/ TimerRequestCancel
  \/ TimerTake
  \/ TimerCheck
  \/ TimerLocked
  \/ TimerWake
  \/ TimerFire
  \/ TimerPost
  \/ TimerJobRun


\* -------------------------------------------------------------- thread pool
Workers == 1 .. NumWorkers

\* what is submitted: submit(std::function<void()>) or submit<R>(fn, ct);
\* fn returns normally or throws
PoolSubmits ==
  {[kind |-> "plain", ct |-> NoState, throws |-> th] : th \in BOOLEAN} \cup
  {[kind |-> "task", ct |-> ct, throws |-> th] : ct \in TimerTokens, th \in BOOLEAN}

\* the value fn of job j returns, the exception it throws
FnValue(j) == <<"value", j>>
FnException(j) == <<"thrown", j>>
Canceled == <<"canceled">>
\* an empty result_store, a null exception_ptr
NoResult == <<"nothing">>

\* the coroutine handle of the task that awaits job j
PoolHandle(j) == <<"pool", j>>

\* enqueue(): if (stop_) return;
EnqueueAlways(stopped) == TRUE
EnqueueAccepts(stopped) == ~stopped

\* worker_loop(): else if (stop_) break;  (reached only with q_ empty)
ExitOnStop(queue, stopped) == stopped
WorkerBreaks(queue, stopped) == queue = <<>> /\ stopped

\* worker_loop(): try { fn(); } catch (...) {}: whatever fn throws ends in the
\* empty handler and the worker goes round the loop again
WorkerDiesOnThrow(throws) == IF throws THEN "dead" ELSE "wait"
AfterPlainJob(throws) == "wait"

\* the submit<R> lambda: if (ct.is_cancelled()) throw canceled
PoolCheckSkipped(ct) == FALSE
PoolCancelCheck(ct) == TokenIsCancelled(ct)

\* submit<R>'s awaitable::await_resume
PoolAwaitResumeNoRethrow(job) == job.store
PoolAwaitResume(job) == IF job.ex # NoResult THEN job.ex ELSE job.store

PoolIdle ==
  /\ p_q = <<>>
  /\ p_stop = FALSE
  /\ p_wpc = <<>>
  /\ p_wjob = <<>>
  /\ p_jobs = <<>>

\* thread_pool(ctx, NumWorkers): the workers have been started
PoolInit ==
  /\ p_q = <<>>
  /\ p_stop = FALSE
  /\ p_wpc = [w \in Workers |-> "wait"]
  /\ p_wjob = [w \in Workers |-> 0]
  /\ p_jobs = <<>>

\* submit(fn), or the coroutine of submit<R>(fn, ct) awaited: await_suspend
\* calls enqueue()
PoolSubmit ==
  \E a \in PoolSubmits :
    /\ Len(p_jobs) < MaxPoolJobs
    /\ LET j == Len(p_jobs) + 1
           accepted == EnqueueAccepts(p_stop)
       IN /\ p_jobs' = Append(p_jobs,
                [kind |-> a.kind, ct |-> a.ct, throws |-> a.throws,
                 after_stop |-> p_stop, accepted |-> accepted,
                 queued_at_stop |-> FALSE,
                 execs |-> 0, by |-> {}, checked |-> "no", runs |-> 0,
                 fn_done |-> FALSE, store |-> NoResult, ex |-> NoResult,
                 posts |-> 0, resumes |-> 0, early |-> FALSE, out |-> NoResult])
          /\ p_q' = IF accepted THEN Append(p_q, j) ELSE p_q
    /\ UNCHANGED <<p_stop, p_wpc, p_wjob>>
    /\ UNCHANGED <<q, runPc, cur, c_cancelled, c_requested>>
    /\ UNCHANGED notPool

\* thread_pool::stop(); queued_at_stop notes the jobs still in q_
PoolStop ==
  /\ p_stop' = TRUE
  /\ p_jobs' = [j \in DOMAIN p_jobs |->
                  IF \E i \in DOMAIN p_q : p_q[i] = j
                    THEN [p_jobs[j] EXCEPT !.queued_at_stop = TRUE]
                    ELSE p_jobs[j]]
  /\ UNCHANGED <<p_q, p_wpc, p_wjob>>
  /\ UNCHANGED <<q, runPc, cur, c_cancelled, c_requested>>
  /\ UNCHANGED notPool

\* request_cancel() on the source of the tokens given to submit
PoolRequestCancel ==
  /\ RequestCancelOn(1)
  /\ UNCHANGED poolVars
  /\ UNCHANGED <<q, runPc, cur>>
  /\ UNCHANGED notPool

\* worker_loop(): the locked block: wait, then take the front job or break
PoolTake(w) ==
  /\ p_wpc[w] = "wait"
  /\ p_stop \/ p_q # <<>>
  /\ IF WorkerBreaks(p_q, p_stop)
       THEN /\ p_wpc' = [p_wpc EXCEPT ![w] = "exit"]
            /\ UNCHANGED <<p_q, p_wjob>>
       ELSE IF p_q # <<>>
         THEN /\ p_wjob' = [p_wjob EXCEPT ![w] = Head(p_q)]
              /\ p_q' = Tail(p_q)
              /\ p_wpc' = [p_wpc EXCEPT ![w] = "start"]
         ELSE UNCHANGED <<p_q, p_wpc, p_wjob>>
  /\ UNCHANGED <<p_stop, p_jobs>>
  /\ UNCHANGED <<q, runPc, cur, c_cancelled, c_requested>>
  /\ UNCHANGED notPool

\* worker_loop(): fn() is called; for submit<R> the lambda first checks the
\* token and either throws canceled into ex or calls the user's fn
PoolStartJob(w) ==
  /\ p_wpc[w] = "start"
  /\ LET j == p_wjob[w]
         job == p_jobs[j]
         seen == [job EXCEPT !.execs = @ + 1, !.by = @ \cup {w}]
     IN IF job.kind = "plain"
          THEN /\ p_jobs' = [p_jobs EXCEPT ![j] = [seen EXCEPT !.runs = @ + 1]]
               /\ p_wpc' = [p_wpc EXCEPT ![w] = "infn"]
          ELSE IF PoolCancelCheck(job.ct)
            THEN /\ p_jobs' = [p_jobs EXCEPT ![j] =
                      [seen EXCEPT !.checked = IF TokenIsCancelled(job.ct)
                                                 THEN "cancelled" ELSE "live",
                                   !.ex = Canceled]]
                 /\ p_wpc' = [p_wpc EXCEPT ![w] = "post"]
            ELSE /\ p_jobs' = [p_jobs EXCEPT ![j] =
                      [seen EXCEPT !.checked = IF TokenIsCancelled(job.ct)
                                                 THEN "cancelled" ELSE "live",
                                   !.runs = @ + 1]]
                 /\ p_wpc' = [p_wpc EXCEPT ![w] = "infn"]
  /\ UNCHANGED <<p_q, p_stop, p_wjob>>
  /\ UNCHANGED <<q, runPc, cur, c_cancelled, c_requested>>
  /\ UNCHANGED notPool

\* the user's fn ends: a plain job is over (worker_loop swallows what it
\* throws); the submit<R> lambda stores the result or the exception
PoolFnEnd(w) ==
  /\ p_wpc[w] = "infn"
  /\ LET j == p_wjob[w]
         job == p_jobs[j]
     IN IF job.kind = "plain"
          THEN /\ p_jobs' = [p_jobs EXCEPT ![j].fn_done = TRUE]
               /\ p_wpc' = [p_wpc EXCEPT ![w] = AfterPlainJob(job.throws)]
               /\ p_wjob' = [p_wjob EXCEPT ![w] = 0]
          ELSE /\ p_jobs' = [p_jobs EXCEPT
                               ![j].fn_done = TRUE,
                               ![j].store = IF job.throws THEN @ ELSE FnValue(j),
                               ![j].ex = IF job.throws THEN FnException(j) ELSE @]
               /\ p_wpc' = [p_wpc EXCEPT ![w] = "post"]
               /\ UNCHANGED p_wjob
  /\ UNCHANGED <<p_q, p_stop>>
  /\ UNCHANGED <<q, runPc, cur, c_cancelled, c_requested>>
  /\ UNCHANGED notPool

\* the submit<R> lambda: pool->ctx_post(h), i.e. ctx_.post(h)
PoolPost(w) ==
  /\ p_wpc[w] = "post"
  /\ q' = Enqueue(q, HandleJob(PoolHandle(p_wjob[w])))
  /\ p_jobs' = [p_jobs EXCEPT ![p_wjob[w]].posts = @ + 1]
  /\ p_wpc' = [p_wpc EXCEPT ![w] = "wait"]
  /\ p_wjob' = [p_wjob EXCEPT ![w] = 0]
  /\ UNCHANGED <<p_q, p_stop>>
  /\ UNCHANGED <<runPc, cur, c_cancelled, c_requested>>
  /\ UNCHANGED notPool

\* the scheduler thread resumes the awaiting coroutine: await_resume
PoolResume ==
  \E j \in DOMAIN p_jobs :
    /\ Resuming(PoolHandle(j))
    /\ p_jobs' = [p_jobs EXCEPT
                    ![j].resumes = @ + 1,
                    ![j].early = ~p_jobs[j].fn_done /\ p_jobs[j].ex = NoResult,
                    ![j].out = PoolAwaitResume(p_jobs[j])]
    /\ JobReturns
    /\ UNCHANGED <<p_q, p_stop, p_wpc, p_wjob>>
    /\ UNCHANGED <<q, c_cancelled, c_requested>>
    /\ UNCHANGED notPool

PoolWorker(w) ==
  \/ PoolTake(w)
  \/ PoolStartJob(w)
  \/ PoolFnEnd(w)
  \/ PoolPost(w)

PoolNext ==
  \/ WhenSched
  \/ PoolSubmit
  \/ PoolStop
  \/ PoolRequestCancel
  \/ \E w \in Workers : PoolTake(w)
  \/ \E w \in Workers : PoolStartJob(w)
  \/ \E w \in Workers : PoolFnEnd(w)
  \/ \E w \in Workers : PoolPost(w)
  \/ PoolResume


\* --------------------------------------------------------------- signal set
\* the signal numbers a program subscribes to: SIGINT, SIGTERM
TermSignal == 15
Signals == {2, TermSignal}
Waiters == 1 .. MaxWaits

NoOut == [kind |-> "none", val |-> 0]

\* async_wait's awaitable: int sig{0}; the coroutine has not called yet
\* `ord` numbers the calls in the order they took a signal out of pending_
NoWait == [pc |-> "idle", ct |-> NoState, sig |-> 0, out |-> NoOut,
           via |-> "none", delivered |-> 0, ord |-> 0]

\* the delivery step's locals: int sig = 0; handler; waiter; has_waiter = false
NoStep == [pc |-> "start", sig |-> 0, handler |-> FALSE, waiter |-> 0,
           has_waiter |-> FALSE]

\* the jobs given to ctx_post: the delivery step of the k-th delivery, the
\* resumption of waiter a
SigJob(k) == [owner |-> <<"signal", k>>, n |-> 0, kind |-> "fn", throws |-> FALSE]
SigResumeJob(a) == [owner |-> <<"waiter", a>>, n |-> 0, kind |-> "fn", throws |-> FALSE]

\* async_wait's awaitable::await_resume
SigAwaitResumeNoCheck(w) == [kind |-> "value", val |-> w.sig]
SigAwaitResume(w) ==
  IF TokenIsCancelled(w.ct) THEN [kind |-> "canceled", val |-> 0]
                            ELSE [kind |-> "value", val |-> w.sig]

\* how many async_wait calls have taken a signal out of pending_ so far
TakenSoFar == Cardinality({a \in DOMAIN sg_wait : sg_wait[a].ord > 0})

SigIdle ==
  /\ sg_signals = {}
  /\ sg_handler = FALSE
  /\ sg_pending = <<>>
  /\ sg_started = FALSE
  /\ sg_stop = FALSE
  /\ sg_waiter = 0
  /\ sg_waiter_active = FALSE
  /\ sg_pc = "off"
  /\ sg_copy = {}
  /\ sg_received = 0
  /\ sg_step = NoStep
  /\ sg_wait = <<>>
  /\ sg_delivered = <<>>
  /\ sg_handled = <<>>

\* signal_set(ctx): nothing subscribed, the worker not started
SigInit ==
  /\ sg_signals = {}
  /\ sg_handler = FALSE
  /\ sg_pending = <<>>
  /\ sg_started = FALSE
  /\ sg_stop = FALSE
  /\ sg_waiter = 0
  /\ sg_waiter_active = FALSE
  /\ sg_pc = "off"
  /\ sg_copy = {}
  /\ sg_received = 0
  /\ sg_step = NoStep
  /\ sg_wait = [a \in Waiters |-> NoWait]
  /\ sg_delivered = <<>>
  /\ sg_handled = <<>>

\* signal_set::add(sig)
SigAdd ==
  \E s \in Signals \ sg_signals :
    /\ sg_signals' = sg_signals \cup {s}
    /\ UNCHANGED <<sg_handler, sg_pending, sg_started, sg_stop, sg_waiter,
                   sg_waiter_active, sg_pc, sg_copy, sg_received, sg_step,
                   sg_wait, sg_delivered, sg_handled>>
    /\ UNCHANGED <<q, runPc, cur, c_cancelled, c_requested>>
    /\ UNCHANGED notSig

\* signal_set::on_signal(fn)
SigOnSignal ==
  /\ ~sg_handler
  /\ sg_handler' = TRUE
  /\ UNCHANGED <<sg_signals, sg_pending, sg_started, sg_stop, sg_waiter,
                 sg_waiter_active, sg_pc, sg_copy, sg_received, sg_step,
                 sg_wait, sg_delivered, sg_handled>>
  /\ UNCHANGED <<q, runPc, cur, c_cancelled, c_requested>>
  /\ UNCHANGED notSig

\* signal_set::stop(): stop_ = true; pthread_kill(worker, SIGTERM)
SigStop ==
  /\ sg_started
  /\ ~sg_stop
  /\ sg_stop' = TRUE
  /\ UNCHANGED <<sg_signals, sg_handler, sg_pending, sg_started, sg_waiter,
                 sg_waiter_active, sg_pc, sg_copy, sg_received, sg_step,
                 sg_wait, sg_delivered, sg_handled>>
  /\ UNCHANGED <<q, runPc, cur, c_cancelled, c_requested>>
  /\ UNCHANGED notSig

\* request_cancel() on the source of the tokens given to async_wait
SigRequestCancel ==
  /\ RequestCancelOn(1)
  /\ UNCHANGED sigVars
  /\ UNCHANGED <<q, runPc, cur>>
  /\ UNCHANGED notSig

\* async_wait(ct): start_if_needed(), then the awaitable's await_ready
SigAsyncWait ==
  \E a \in Waiters, ct \in TimerTokens :
    /\ sg_wait[a].pc = "idle"
    /\ \A b \in Waiters : b < a => sg_wait[b].pc # "idle"
    /\ sg_started' = TRUE
    /\ sg_pc' = IF sg_started THEN sg_pc ELSE "top"
    /\ IF sg_pending # <<>>
         THEN /\ sg_pending' = Tail(sg_pending)
              /\ sg_wait' = [sg_wait EXCEPT ![a] =
                   [pc |-> "done", ct |-> ct, sig |-> Head(sg_pending),
                    out |-> SigAwaitResume([ct |-> ct, sig |-> Head(sg_pending)]),
                    via |-> "ready", delivered |-> 0, ord |-> TakenSoFar + 1]]
         ELSE /\ sg_wait' = [sg_wait EXCEPT ![a] = [NoWait EXCEPT !.pc = "checking",
                                                                  !.ct = ct]]
              /\ UNCHANGED sg_pending
    /\ UNCHANGED <<sg_signals, sg_handler, sg_stop, sg_waiter, sg_waiter_active,
                   sg_copy, sg_received, sg_step, sg_delivered, sg_handled>>
    /\ UNCHANGED <<q, runPc, cur, c_cancelled, c_requested>>
    /\ UNCHANGED notSig

\* the awaitable's await_suspend(h)
SigAwaitSuspend ==
  \E a \in Waiters :
    /\ sg_wait[a].pc = "checking"
    /\ IF TokenIsCancelled(sg_wait[a].ct)
         THEN /\ q' = Enqueue(q, SigResumeJob(a))
              /\ sg_wait' = [sg_wait EXCEPT ![a].pc = "posted"]
              /\ UNCHANGED <<sg_pending, sg_waiter, sg_waiter_active>>
         ELSE IF sg_pending # <<>>
           THEN /\ q' = Enqueue(q, SigResumeJob(a))
                /\ sg_wait' = [sg_wait EXCEPT ![a].pc = "posted",
                                              ![a].sig = Head(sg_pending),
                                              ![a].ord = TakenSoFar + 1]
                /\ sg_pending' = Tail(sg_pending)
                /\ UNCHANGED <<sg_waiter, sg_waiter_active>>
           ELSE /\ sg_waiter' = a
                /\ sg_waiter_active' = TRUE
                /\ sg_wait' = [sg_wait EXCEPT ![a].pc = "suspended"]
                /\ UNCHANGED <<q, sg_pending>>
    /\ UNCHANGED <<sg_signals, sg_handler, sg_started, sg_stop, sg_pc, sg_copy,
                   sg_received, sg_step, sg_delivered, sg_handled>>
    /\ UNCHANGED <<runPc, cur, c_cancelled, c_requested>>
    /\ UNCHANGED notSig

\* the scheduler runs the resumption posted by await_suspend: await_resume
SigResumePosted ==
  \E a \in Waiters :
    /\ runPc = "injob"
    /\ cur = SigResumeJob(a)
    /\ sg_wait' = [sg_wait EXCEPT ![a].pc = "done",
                                  ![a].out = SigAwaitResume(sg_wait[a]),
                                  ![a].via = "posted"]
    /\ JobReturns
    /\ UNCHANGED <<sg_signals, sg_handler, sg_pending, sg_started, sg_stop,
                   sg_waiter, sg_waiter_active, sg_pc, sg_copy, sg_received,
                   sg_step, sg_delivered, sg_handled>>
    /\ UNCHANGED <<q, c_cancelled, c_requested>>
    /\ UNCHANGED notSig

\* worker_loop(): top of the loop: return on stop_, copy signals_; with
\* nothing subscribed sleep and loop again
SigWorkerTop ==
  /\ sg_pc = "top"
  /\ sg_stop \/ sg_signals # {}
  /\ IF sg_stop
       THEN /\ sg_pc' = "exit"
            /\ UNCHANGED sg_copy
       ELSE /\ sg_copy' = sg_signals
            /\ sg_pc' = "sigwait"
  /\ UNCHANGED <<sg_signals, sg_handler, sg_pending, sg_started, sg_stop,
                 sg_waiter, sg_waiter_active, sg_received, sg_step, sg_wait,
                 sg_delivered, sg_handled>>
  /\ UNCHANGED <<q, runPc, cur, c_cancelled, c_requested>>
  /\ UNCHANGED notSig

\* worker_loop(): sigwait(&set, &received) returns a delivered signal of the
\* set; the SIGTERM that stop() sends to the worker is one when subscribed
SigWaitReturns ==
  \E s \in sg_copy :
    /\ sg_pc = "sigwait"
    /\ Len(sg_delivered) < MaxDeliveries \/ (sg_stop /\ s = TermSignal)
    /\ sg_received' = s
    /\ sg_delivered' = IF sg_stop THEN sg_delivered ELSE Append(sg_delivered, s)
    /\ sg_pc' = "got"
    /\ UNCHANGED <<sg_signals, sg_handler, sg_pending, sg_started, sg_stop,
                   sg_waiter, sg_waiter_active, sg_copy, sg_step, sg_wait,
                   sg_handled>>
    /\ UNCHANGED <<q, runPc, cur, c_cancelled, c_requested>>
    /\ UNCHANGED notSig

\* worker_loop(): under the lock: return on stop_, else pending_.push(received)
SigPush ==
  /\ sg_pc = "got"
  /\ IF sg_stop
       THEN /\ sg_pc' = "exit"
            /\ UNCHANGED sg_pending
       ELSE /\ sg_pending' = Append(sg_pending, sg_received)
            /\ sg_pc' = "post"
  /\ UNCHANGED <<sg_signals, sg_handler, sg_started, sg_stop, sg_waiter,
                 sg_waiter_active, sg_copy, sg_received, sg_step, sg_wait,
                 sg_delivered, sg_handled>>
  /\ UNCHANGED <<q, runPc, cur, c_cancelled, c_requested>>
  /\ UNCHANGED notSig

\* worker_loop(): ctx_post of the delivery step
SigPost ==
  /\ sg_pc = "post"
  /\ q' = Enqueue(q, SigJob(Len(sg_delivered)))
  /\ sg_pc' = "top"
  /\ UNCHANGED <<sg_signals, sg_handler, sg_pending, sg_started, sg_stop,
                 sg_waiter, sg_waiter_active, sg_copy, sg_received, sg_step,
                 sg_wait, sg_delivered, sg_handled>>
  /\ UNCHANGED <<runPc, cur, c_cancelled, c_requested>>
  /\ UNCHANGED notSig

\* the delivery step, its first locked block: pop the front of pending_,
\* copy on_signal_, take the waiter
SigStepTake ==
  \E k \in 1 .. MaxDeliveries :
    /\ runPc = "injob"
    /\ cur = SigJob(k)
    /\ sg_step.pc = "start"
    /\ IF sg_pending = <<>>
         THEN /\ JobReturns
              /\ UNCHANGED <<sg_pending, sg_step, sg_waiter, sg_waiter_active>>
         ELSE /\ sg_pending' = Tail(sg_pending)
              /\ sg_step' = [pc |-> "taken", sig |-> Head(sg_pending),
                             handler |-> sg_handler,
                             waiter |-> IF sg_waiter_active THEN sg_waiter ELSE 0,
                             has_waiter |-> sg_waiter_active]
              /\ sg_waiter' = IF sg_waiter_active THEN 0 ELSE sg_waiter
              /\ sg_waiter_active' = FALSE
              /\ UNCHANGED <<runPc, cur>>
    /\ UNCHANGED <<sg_signals, sg_handler, sg_started, sg_stop, sg_pc, sg_copy,
                   sg_received, sg_wait, sg_delivered, sg_handled>>
    /\ UNCHANGED <<q, c_cancelled, c_requested>>
    /\ UNCHANGED notSig

\* the delivery step, the rest: handler(sig); pending_.push(sig); and with a
\* waiter, waiter.resume(), which runs the awaitable's await_resume
SigStepFinish ==
  /\ runPc = "injob"
  /\ sg_step.pc = "taken"
  /\ sg_handled' = IF sg_step.handler THEN Append(sg_handled, sg_step.sig)
                                      ELSE sg_handled
  /\ sg_pending' = Append(sg_pending, sg_step.sig)
  /\ IF sg_step.has_waiter /\ sg_step.waiter # 0
       THEN sg_wait' = [sg_wait EXCEPT
                          ![sg_step.waiter].pc = "done",
                          ![sg_step.waiter].out = SigAwaitResume(sg_wait[sg_step.waiter]),
                          ![sg_step.waiter].via = "delivery",
                          ![sg_step.waiter].delivered = sg_step.sig]
       ELSE UNCHANGED sg_wait
  /\ sg_step' = NoStep
  /\ JobReturns
  /\ UNCHANGED <<sg_signals, sg_handler, sg_started, sg_stop, sg_waiter,
                 sg_waiter_active, sg_pc, sg_copy, sg_received, sg_delivered>>
  /\ UNCHANGED <<q, c_cancelled, c_requested>>
  /\ UNCHANGED notSig

SigNext ==
  \/ WhenSched
  \/ SigAdd
  \/ SigOnSignal
  \/ SigStop
  \/ SigRequestCancel
  \/ SigAsyncWait
  \/ SigAwaitSuspend
  \/ SigResumePosted
  \/ SigWorkerTop
  \/ SigWaitReturns
  \/ SigPush
  \/ SigPost
  \/ SigStepTake
  \/ SigStepFinish


\* ---------------------------------------------------- lifetime of task frames
Top == "top"
Sub == "sub"
\* the frame of detail::make_detached that spawn_detached wraps around top
Wrap == "wrap"
LifeFrames == {Top, Sub, Wrap}

\* the coroutine handle of frame f as posted to the scheduler
LifeH(f) == <<"task", f>>

\* what the owner of the top task object does with it
\* ("empty": start() is called on a task object that holds no frame)
LifeModes == {"started", "dropped", "spawned", "empty"}
\* the body: whether top co_awaits a child task, whether the innermost body
\* suspends once on sched.schedule(), whether it throws
LifeConfigs == [awaits : BOOLEAN, suspends : BOOLEAN, throws : BOOLEAN]

\* the frame whose body is the innermost one
Leaf == IF l_cfg.awaits THEN Sub ELSE Top

LifeIdle ==
  /\ l_mode = "none"
  /\ l_cfg = [awaits |-> FALSE, suspends |-> FALSE, throws |-> FALSE]
  /\ l_fr = [f \in LifeFrames |-> NoFrame]
  /\ l_owner = [f \in LifeFrames |-> FALSE]
  /\ l_active = None
  /\ l_pc = "idle"
  /\ l_destroys = [f \in LifeFrames |-> 0]
  /\ l_late = [f \in LifeFrames |-> 0]
  /\ l_other = "none"

\* the top coroutine has been called: its frame is suspended at
\* initial_suspend and a task object owns it
LifeInit ==
  /\ l_mode \in LifeModes
  /\ l_cfg \in LifeConfigs
  /\ l_fr = [f \in LifeFrames |->
               IF f = Top /\ l_mode # "empty" THEN NewFrame ELSE NoFrame]
  /\ l_owner = [f \in LifeFrames |-> f = Top /\ l_mode # "empty"]
  /\ l_active = None
  /\ l_pc = "fresh"
  /\ l_destroys = [f \in LifeFrames |-> 0]
  /\ l_late = [f \in LifeFrames |-> 0]
  /\ l_other = "none"

\* task::destroy(): if (h_) { h_.destroy(); h_ = {}; }
TaskDestroy(fr, owner, destroys, f) ==
  IF owner[f]
    THEN [fr |-> [fr EXCEPT ![f].st = "destroyed"],
          owner |-> [owner EXCEPT ![f] = FALSE],
          destroys |-> [destroys EXCEPT ![f] = @ + 1]]
    ELSE [fr |-> fr, owner |-> owner, destroys |-> destroys]

\* task::start(sched) &&
LifeStart ==
  /\ l_mode \in {"started", "empty"}
  /\ l_pc = "fresh"
  /\ IF l_owner[Top]
       THEN /\ l_fr' = [l_fr EXCEPT ![Top].detached = TRUE]
            /\ q' = Enqueue(q, HandleJob(LifeH(Top)))
            /\ l_owner' = [l_owner EXCEPT ![Top] = FALSE]
       ELSE UNCHANGED <<l_fr, q, l_owner>>
  /\ l_pc' = "started"
  /\ UNCHANGED <<l_other, l_mode, l_cfg, l_active, l_destroys, l_late>>
  /\ UNCHANGED <<runPc, cur>>
  /\ UNCHANGED notLife

\* ~task() of the top task object: after start(), or without ever starting
LifeOwnerDtor ==
  /\ l_mode # "spawned"
  /\ l_pc = IF l_mode \in {"started", "empty"} THEN "started" ELSE "fresh"
  /\ LET r == TaskDestroy(l_fr, l_owner, l_destroys, Top)
     IN /\ l_fr' = r.fr
        /\ l_owner' = r.owner
        /\ l_destroys' = r.destroys
  /\ l_pc' = "gone"
  /\ UNCHANGED <<l_other, l_mode, l_cfg, l_active, l_late>>
  /\ UNCHANGED <<q, runPc, cur>>
  /\ UNCHANGED notLife

\* the scheduler runs a posted handle: h.resume()
LifeResume ==
  \E f \in LifeFrames :
    /\ Resuming(LifeH(f))
    /\ l_active = None
    /\ IF l_fr[f].st \in {"initial", "suspended"}
         THEN /\ l_fr' = [l_fr EXCEPT ![f].st = "running"]
              /\ l_active' = f
              /\ UNCHANGED <<l_late, runPc, cur>>
         ELSE /\ l_late' = [l_late EXCEPT ![f] = @ + 1]
              /\ JobReturns
              /\ UNCHANGED <<l_fr, l_active>>
    /\ UNCHANGED <<l_other, l_mode, l_cfg, l_owner, l_pc, l_destroys>>
    /\ UNCHANGED q
    /\ UNCHANGED notLife

\* task_awaiter::await_suspend(awaiting) for the task with frame h: the
\* handle it returns for symmetric transfer and the handles it posts
AwaitSuspendPosting(h) == [resume |-> None, post |-> <<h>>]
AwaitSuspend(h) == [resume |-> h, post |-> <<>>]

\* the jobs that resume the handles of a sequence of frames
HandleJobs(fs) == [i \in 1 .. Len(fs) |-> HandleJob(LifeH(fs[i]))]

\* top's body: `co_await child()`: the child frame and its temporary task
\* object are created; task_awaiter::await_suspend stores the continuation
\* and transfers to the child
LifeAwaitChild ==
  /\ l_active = Top
  /\ l_cfg.awaits
  /\ l_fr[Top].st = "running"
  /\ l_fr[Sub].st = "absent"
  /\ LET t == AwaitSuspend(Sub)
     IN /\ l_fr' = [l_fr EXCEPT
                      ![Sub] = [NewFrame EXCEPT
                                  !.continuation = Top,
                                  !.st = IF t.resume = Sub THEN "running" ELSE @],
                      ![Top].st = "awaiting"]
        /\ l_active' = t.resume
        /\ q' = q \o HandleJobs(t.post)
        /\ IF t.resume = None THEN JobReturns ELSE UNCHANGED <<runPc, cur>>
  /\ l_owner' = [l_owner EXCEPT ![Sub] = TRUE]
  /\ UNCHANGED <<l_other, l_mode, l_cfg, l_pc, l_destroys, l_late>>
  /\ UNCHANGED notLife

\* the innermost body awaits sched.schedule(): it posts its own handle and
\* suspends; the job that resumed it returns to run()
LifeSchedule ==
  /\ l_active = Leaf
  /\ l_cfg.suspends
  /\ l_fr[Leaf].st = "running"
  /\ l_fr[Leaf].value = None
  /\ l_fr' = [l_fr EXCEPT ![Leaf].st = "suspended", ![Leaf].value = "rescheduled"]
  /\ q' = Enqueue(q, HandleJob(LifeH(Leaf)))
  /\ l_active' = None
  /\ JobReturns
  /\ UNCHANGED <<l_other, l_mode, l_cfg, l_owner, l_pc, l_destroys, l_late>>
  /\ UNCHANGED notLife

\* the innermost body ends: co_return, or an exception reaches
\* unhandled_exception
LifeBodyEnd ==
  /\ l_active = Leaf
  /\ l_fr[Leaf].st = "running"
  /\ l_cfg.suspends => l_fr[Leaf].value # None
  /\ l_fr' = [l_fr EXCEPT ![Leaf] =
                IF l_cfg.throws THEN UnhandledException(@, ExcOf(Leaf))
                                ELSE ReturnValue(@, "result")]
  /\ UNCHANGED <<l_other, l_mode, l_cfg, l_owner, l_active, l_pc, l_destroys, l_late>>
  /\ UNCHANGED <<q, runPc, cur>>
  /\ UNCHANGED notLife

\* final_suspend of the frame in control: final_awaiter::await_suspend
LifeFinal ==
  /\ l_active \in {Top, Sub}
  /\ l_fr[l_active].st = "atfinal"
  /\ LET f == l_active
         target == FinalTarget(l_fr[f])
         after == AfterFinal(l_fr[f])
     IN /\ l_fr' = [g \in LifeFrames |->
                      IF g = f THEN after
                      ELSE IF g = target THEN [l_fr[g] EXCEPT !.st = "running"]
                      ELSE l_fr[g]]
        /\ l_destroys' = IF after.st = "destroyed"
                           THEN [l_destroys EXCEPT ![f] = @ + 1] ELSE l_destroys
        /\ l_active' = target
        /\ IF target = None THEN JobReturns ELSE UNCHANGED <<runPc, cur>>
  /\ UNCHANGED <<l_other, l_mode, l_cfg, l_owner, l_pc, l_late>>
  /\ UNCHANGED q
  /\ UNCHANGED notLife

\* top resumes after the co_await: await_resume reads the child's promise,
\* the temporary task object is destroyed, top's body ends
LifeAfterAwait ==
  /\ l_active = Top
  /\ l_cfg.awaits
  /\ l_fr[Top].st = "running"
  /\ l_fr[Sub].st # "absent"
  /\ LET got == AwaitResume(l_fr[Sub])
         r == TaskDestroy(l_fr, l_owner, l_destroys, Sub)
     IN /\ l_late' = IF l_fr[Sub].st = "destroyed"
                       THEN [l_late EXCEPT ![Sub] = @ + 1] ELSE l_late
        /\ l_fr' = [r.fr EXCEPT ![Top] =
                      IF got.kind = "exc" THEN UnhandledException(@, got.val)
                                          ELSE ReturnValue(@, got.val)]
        /\ l_owner' = r.owner
        /\ l_destroys' = r.destroys
  /\ UNCHANGED <<l_other, l_mode, l_cfg, l_active, l_pc>>
  /\ UNCHANGED <<q, runPc, cur>>
  /\ UNCHANGED notLife

\* a plain callable posted by another thread once the task was launched
OtherJob == [owner |-> 1, n |-> 1, kind |-> "fn", throws |-> FALSE]

\* detached_task::promise_type::unhandled_exception: what it lets out of the
\* coroutine (nothing: the exception is swallowed)
NoEscape == None
DetachedUnhandledRethrows(e) == e
DetachedUnhandled(e) == NoEscape

\* an exception leaves the callable that run() executes
JobThrows == runPc' = "threw" /\ cur' = NoJob

\* spawn_detached(ctx, std::move(t)): make_detached creates the wrapper frame
\* and moves t into it, the wrapper's handle is posted; dt and the moved-from
\* t go out of scope without effect
LifeSpawn ==
  /\ l_mode = "spawned"
  /\ l_pc = "fresh"
  /\ l_fr' = [l_fr EXCEPT ![Wrap] = NewFrame]
  /\ q' = Enqueue(q, HandleJob(LifeH(Wrap)))
  /\ l_pc' = "gone"
  /\ UNCHANGED <<l_other, l_mode, l_cfg, l_owner, l_active, l_destroys, l_late>>
  /\ UNCHANGED <<runPc, cur>>
  /\ UNCHANGED notLife

\* make_detached: `co_await t`: task_awaiter::await_suspend stores the
\* wrapper as top's continuation and transfers to top
LifeWrapAwait ==
  /\ l_active = Wrap
  /\ l_fr[Wrap].st = "running"
  /\ l_fr[Top].st = "initial"
  /\ LET t == AwaitSuspend(Top)
     IN /\ l_fr' = [l_fr EXCEPT
                      ![Top].continuation = Wrap,
                      ![Top].st = IF t.resume = Top THEN "running" ELSE @,
                      ![Wrap].st = "awaiting"]
        /\ l_active' = t.resume
        /\ q' = q \o HandleJobs(t.post)
        /\ IF t.resume = None THEN JobReturns ELSE UNCHANGED <<runPc, cur>>
  /\ UNCHANGED <<l_other, l_mode, l_cfg, l_owner, l_pc, l_destroys, l_late>>
  /\ UNCHANGED notLife

\* make_detached resumes after the co_await: await_resume rethrows top's
\* exception into the wrapper's body, where unhandled_exception receives it;
\* otherwise co_return
LifeWrapAfterAwait ==
  /\ l_active = Wrap
  /\ l_fr[Wrap].st = "running"
  /\ l_fr[Top].st # "initial"
  /\ LET got == AwaitResume(l_fr[Top])
         out == IF got.kind = "exc" THEN DetachedUnhandled(got.val) ELSE NoEscape
     IN /\ l_late' = IF l_fr[Top].st = "destroyed"
                       THEN [l_late EXCEPT ![Top] = @ + 1] ELSE l_late
        /\ l_fr' = [l_fr EXCEPT ![Wrap].st = "atfinal"]
        /\ IF out = NoEscape
             THEN UNCHANGED <<l_active, runPc, cur>>
             ELSE l_active' = None /\ JobThrows
  /\ UNCHANGED <<l_other, l_mode, l_cfg, l_owner, l_pc, l_destroys>>
  /\ UNCHANGED q
  /\ UNCHANGED notLife

\* detached_task's final_awaiter::await_suspend: h.destroy(); the frame's
\* parameter t is destroyed with it (~task of top)
LifeWrapFinal ==
  /\ l_active = Wrap
  /\ l_fr[Wrap].st = "atfinal"
  /\ LET r == TaskDestroy(l_fr, l_owner, l_destroys, Top)
     IN /\ l_fr' = [r.fr EXCEPT ![Wrap].st = "destroyed"]
        /\ l_owner' = r.owner
        /\ l_destroys' = [r.destroys EXCEPT ![Wrap] = @ + 1]
  /\ l_active' = None
  /\ JobReturns
  /\ UNCHANGED <<l_other, l_mode, l_cfg, l_pc, l_late>>
  /\ UNCHANGED q
  /\ UNCHANGED notLife

\* another thread posts a plain job after the task was launched
LifePostOther ==
  /\ l_other = "none"
  /\ l_pc # "fresh"
  /\ q' = Enqueue(q, OtherJob)
  /\ l_other' = "queued"
  /\ UNCHANGED <<l_mode, l_cfg, l_fr, l_owner, l_active, l_pc, l_destroys, l_late>>
  /\ UNCHANGED <<runPc, cur>>
  /\ UNCHANGED notLife

\* run() executes the plain job
LifeOtherRun ==
  /\ runPc = "injob"
  /\ cur = OtherJob
  /\ l_other' = "ran"
  /\ JobReturns
  /\ UNCHANGED <<l_mode, l_cfg, l_fr, l_owner, l_active, l_pc, l_destroys, l_late>>
  /\ UNCHANGED q
  /\ UNCHANGED notLife

\* the steps of the thread that is inside run()
LifeRun ==
  \/ WhenSched
  \/ LifeResume
  \/ LifeAwaitChild
  \/ LifeSchedule
  \/ LifeBodyEnd
  \/ LifeFinal
  \/ LifeAfterAwait
  \/ LifeWrapAwait
  \/ LifeWrapAfterAwait
  \/ LifeWrapFinal
  \/ LifeOtherRun

LifeNext ==
  \/ LifeRun
  \/ LifeStart
  \/ LifeSpawn
  \/ LifeOwnerDtor
  \/ LifePostOther

vars == <<schedVars, taskVars, whenVars, cancelVars, timerVars, poolVars,
          sigVars, lifeVars, run2Vars>>

\* the scheduler alone, its clients posting opaque jobs
InitSched == SchedInit /\ TaskIdle /\ WhenIdle /\ CancelIdle /\ TimerIdle /\ PoolIdle /\ SigIdle /\ LifeIdle
SpecSched == InitSched /\ [][SchedNext]_vars
\* two threads call run() on one scheduler
SchedTwoNext ==
  \/ SchedNext
  \/ Run2Start
  \/ Run2Pop
  \/ Run2Call
  \/ Run2JobEnd
  \/ Run2Return
SpecSchedTwo == InitSched /\ [][SchedTwoNext]_vars
\* run() is called, and the thread inside it keeps taking steps
SpecSchedFair == SpecSched /\ WF_vars(RunThreadSteps)

\* when_all over up to MaxChildren tasks on a running scheduler
InitAll == SchedInit /\ TaskIdle /\ WhenInit /\ CancelIdle /\ TimerIdle /\ PoolIdle /\ SigIdle /\ LifeIdle
SpecAll == InitAll /\ [][AllNext]_vars
\* the thread inside run() keeps taking steps, and whoever a suspended child
\* waits for does wake it
SpecAllFair == SpecAll /\ WF_vars(AllNext)

\* when_any over up to MaxChildren tasks on a running scheduler
InitAny == SchedInit /\ TaskIdle /\ WhenInit /\ CancelIdle /\ TimerIdle /\ PoolIdle /\ SigIdle /\ LifeIdle
SpecAny == InitAny /\ [][AnyNext]_vars

\* chain() driven by sync_await
InitTask == TaskInit /\ SchedInit /\ WhenIdle /\ CancelIdle /\ TimerIdle /\ PoolIdle /\ SigIdle /\ LifeIdle
SpecTask == InitTask /\ [][TaskNext]_vars

\* cancel sources and the tokens taken from them
InitCancel == SchedInit /\ TaskIdle /\ WhenIdle /\ CancelIdle /\ TimerIdle /\ PoolIdle /\ SigIdle /\ LifeIdle
SpecCancel == InitCancel /\ [][CancelNext]_vars

\* the timer worker, its callers, the clock and the scheduler that runs
\* the posted jobs
InitTimer == SchedInit /\ TaskIdle /\ WhenIdle /\ CancelIdle /\ TimerInit /\ PoolIdle /\ SigIdle /\ LifeIdle
SpecTimer == InitTimer /\ [][TimerNext]_vars
\* the timer without cancellation and without the scheduler running
SpecTimerCore == InitTimer /\ [][TimerCoreNext]_vars
\* timer_loop runs on a thread of its own, which keeps taking steps
SpecTimerCoreFair == SpecTimerCore /\ WF_vars(TimerWorker)
\* ... and the steady clock advances
SpecTimerClockFair == SpecTimerCore /\ WF_vars(TimerWorker) /\ WF_vars(Tick)

\* the thread pool, its submitters and the scheduler that resumes the
\* awaiting coroutines
InitPool ==
  /\ SchedInit /\ TaskIdle /\ WhenIdle /\ CancelIdle /\ TimerIdle /\ PoolInit
  /\ SigIdle /\ LifeIdle
SpecPool == InitPool /\ [][PoolNext]_vars

\* the same with every worker thread getting to run: a worker that can take
\* a step (a callable to take or to finish, stop_ to observe) eventually does
SpecPoolFair == SpecPool /\ \A w \in Workers : WF_vars(PoolWorker(w))

\* the signal set, its worker, the coroutines calling async_wait and the
\* scheduler that runs the delivery steps
InitSig ==
  /\ SchedInit /\ TaskIdle /\ WhenIdle /\ CancelIdle /\ TimerIdle /\ PoolIdle
  /\ SigInit /\ LifeIdle
SpecSig == InitSig /\ [][SigNext]_vars

\* one task object and its frame, started on the scheduler or dropped,
\* its body possibly awaiting a child task
InitLife ==
  /\ SchedInit /\ TaskIdle /\ WhenIdle /\ CancelIdle /\ TimerIdle /\ PoolIdle
  /\ SigIdle /\ LifeInit
SpecLife == InitLife /\ [][LifeNext]_vars
\* the thread inside run() keeps taking steps
SpecLifeFair == SpecLife /\ WF_vars(LifeRun)

\* ------------------------------------------------------------------- claims
ExecutedSet == {executed[i] : i \in DOMAIN executed}
PostedSet == {id \in Threads \X (1 .. MaxJobs) : id[2] <= nposted[id[1]]}

\* C1: two jobs posted to one scheduler by the same thread start executing in
\* the order they were posted, whatever the other threads post in between:
\* when the n-th job of a thread has started, all its earlier jobs have
\* started before it.
C1_PostOrderPerThread ==
  \A j \in DOMAIN executed :
    /\ \A k \in 1 .. (executed[j][2] - 1) :
         \E i \in 1 .. (j - 1) : executed[i] = <<executed[j][1], k>>
    /\ \A i \in 1 .. (j - 1) :
         executed[i][1] = executed[j][1] => executed[i][2] < executed[j][2]

\* C1 witness: a poster's two jobs have run with another thread's job between them
C1_Witness ==
  \E i, j, k \in DOMAIN executed :
    /\ i < j /\ j < k
    /\ executed[i] = <<1, 1>>
    /\ executed[j][1] = 2
    /\ executed[k] = <<1, 2>>

\* C2: no job is started twice, and when run() has left its loop every job
\* posted before stop() was called has been started (exactly once) by run().
C2_ExactlyOnce ==
  /\ \A i, j \in DOMAIN executed : executed[i] = executed[j] => i = j
  /\ runPc \in {"exit", "returned"} => preStop \subseteq ExecutedSet

\* C2 witness: run() returned after executing jobs of two posters and a job
\* posted from inside a job, all posted before stop()
C2_Witness ==
  /\ runPc = "returned"
  /\ {<<0, 1>>, <<1, 1>>, <<1, 2>>, <<2, 1>>} \subseteq preStop
  /\ Len(executed) >= 4

\* C3: run() leaves its loop only when stop has been requested and the queue
\* is empty, and every job posted up to that moment (queued at stop(), or
\* posted while the queue was being drained) has been started.
C3_ReturnsOnlyDrained ==
  [][(runPc = "lock" /\ runPc' = "exit")
       => (stop_requested /\ q = <<>> /\ PostedSet \subseteq ExecutedSet)]_vars

\* C3 witness: run() returned and a job posted after stop() was executed
C3_Witness ==
  /\ runPc = "returned"
  /\ \E id \in ExecutedSet : id \notin preStop
  /\ \E id \in ExecutedSet : id \in preStop

\* what the body of child c does, from the inputs alone
BodyOutcome(c) ==
  IF c \in in_throws
    THEN [kind |-> "exc", val |-> ExcOf(c)]
    ELSE [kind |-> "value", val |-> IF c = Compute THEN in_v ELSE in_v + 1]

\* C4: each co_await of chain() yields exactly what the awaited body
\* co_returned, or rethrows exactly the exception it threw; through the chain,
\* sync_await(chain()) obtains in_v + 1 (43 for 42) or the first exception.
C4_AwaitYieldsBodyResult ==
  /\ \A i \in DOMAIN await_log : await_log[i].got = BodyOutcome(await_log[i].child)
  /\ \A i, j \in DOMAIN await_log : await_log[i].child = await_log[j].child => i = j
  /\ drv.kind # "none" =>
       drv = IF Compute \in in_throws THEN BodyOutcome(Compute)
             ELSE BodyOutcome(AddOne)
  /\ (drv.kind = "value" /\ in_v = TestValue) => drv.val = 43

\* C4 witness: the chain of the test completed with 43
C4_Witness ==
  /\ in_v = TestValue
  /\ drv = [kind |-> "value", val |-> 43]
  /\ Len(await_log) = 2

\* C4 witness of the exception path is reached as well
C4_WitnessThrow ==
  /\ drv = [kind |-> "exc", val |-> ExcOf(AddOne)]
  /\ Len(await_log) = 2

AllChildrenDone == \A i \in Indices : w_cpc[i] = "done"
Throwers == {i \in Indices : w_cfg[i].throws}

\* the child that finished first among those that threw
FirstFailed ==
  LET at == CHOOSE j \in DOMAIN w_finish :
              /\ w_finish[j] \in Throwers
              /\ \A k \in 1 .. (j - 1) : w_finish[k] \notin Throwers
  IN w_finish[at]

\* C5: the coroutine awaiting when_all is posted and resumed at most once, only
\* when all N children have finished, by the runner that finished last (the
\* one that took remaining from 1 to 0); with N >= 1 children all finished it
\* has been posted exactly once.
C5_AllResumesOnceAfterAll ==
  /\ Len(w_posts) <= 1
  /\ w_resumes <= 1
  /\ w_posts # <<>> =>
       /\ AllChildrenDone
       /\ Len(w_finish) = w_n
       /\ w_posts[1] = w_finish[w_n]
       /\ all_st.remaining = 0
  /\ w_resumes = 1 => (AllChildrenDone /\ w_posts # <<>>)
  /\ (w_n >= 1 /\ AllChildrenDone) => Len(w_posts) = 1

\* C5 witness: three children finished out of argument order and the parent
\* was resumed
C5_Witness ==
  /\ w_n = 3
  /\ w_finish = <<2, 0, 1>>
  /\ w_posts = <<1>>
  /\ w_resumes = 1

\* equality of two results whose C++ types may differ (an int, monostate)
SameResult(a, b) == ToString(a) = ToString(b)

\* C6: when every child succeeds, the tuple when_all yields holds at position
\* i the result of the i-th argument task (monostate for a void task),
\* whatever the completion order.
C6_AllTuplePositional ==
  /\ w_out.kind = "value" =>
       /\ DOMAIN w_out.val = Indices
       /\ \A i \in Indices : SameResult(w_out.val[i], ChildValue(i))
  /\ (w_ppc = "resumed" /\ Throwers = {}) => w_out.kind = "value"

\* C6 witness: a tuple of three was produced although the children finished in
\* another order, one of them a task<void>
C6_Witness ==
  /\ w_n = 3
  /\ w_out.kind = "value"
  /\ w_finish = <<1, 2, 0>>
  /\ w_cfg[2].void /\ ~w_cfg[0].void /\ ~w_cfg[1].void

\* C7: when k >= 1 children throw, when_all rethrows exactly the exception of
\* the child that was first to finish with an exception, and yields no tuple.
C7_AllFirstException ==
  (w_ppc = "resumed" /\ Throwers # {}) =>
     w_out = [kind |-> "exc", val |-> ExcOf(FirstFailed)]

\* C7 witness: two children threw, the later argument first, and its exception
\* is the one rethrown
C7_Witness ==
  /\ w_ppc = "resumed"
  /\ {0, 1} \subseteq Throwers
  /\ Len(w_finish) >= 2 /\ w_finish[1] = 1
  /\ w_out = [kind |-> "exc", val |-> ExcOf(1)]

\* C8: the index when_any reports is the index of the first child to finish
\* (the CAS winner); it is written by that runner only and keeps its value
\* when later children finish; when the winner produced a value, the slot at
\* that index holds it, in the state and in the pair await_resume returns.
C8_AnyIndexIsWinner ==
  /\ w_finish = <<>> => (any_st.index = NoIndex /\ ~any_st.done)
  /\ w_finish # <<>> =>
       /\ any_st.done
       /\ any_st.index = w_finish[1]
       /\ w_finish[1] \notin Throwers =>
            any_st.results[any_st.index] = ChildValue(w_finish[1])
  /\ w_out.kind = "value" =>
       /\ w_out.val.index = w_finish[1]
       /\ w_out.val.slots[w_out.val.index] = ChildValue(w_finish[1])

\* C8 witness: child 1 finished first, another child finished after it, and
\* when_any reported index 1
C8_Witness ==
  /\ Len(w_finish) >= 2
  /\ w_finish[1] = 1
  /\ w_out.kind = "value"
  /\ w_out.val.index = 1

\* C9: the coroutine awaiting when_any is posted exactly once, by the first
\* child to finish; later finishers never post it again, so it is resumed at
\* most once.
C9_AnyPostsOnce ==
  /\ Len(w_posts) <= 1
  /\ w_finish # <<>> => w_posts = <<w_finish[1]>>
  /\ w_finish = <<>> => w_posts = <<>>
  /\ w_resumes <= 1
  /\ Len(SelectSeq(executed, LAMBDA id : id = JobId(HandleJob(Parent)))) <= 2

\* C9 witness: all three children have finished and the parent was posted once
C9_Witness ==
  /\ w_n = 3
  /\ Len(w_finish) = 3
  /\ Len(w_posts) = 1
  /\ w_resumes = 1

\* C10: when_any rethrows only when the winning child threw, and then the
\* winner's exception; when the winner produced a value, when_any yields the
\* winner's index and value even if a losing child throws.
\* (The code rethrows st->ex, which a losing child that throws before the
\* parent is resumed has set.)
C10_AnyWinnerErrorOnly ==
  w_ppc = "resumed" =>
    LET w == w_finish[1] IN
      IF w \in Throwers
        THEN w_out = [kind |-> "exc", val |-> ExcOf(w)]
        ELSE /\ w_out.kind = "value"
             /\ w_out.val.index = w
             /\ w_out.val.slots[w] = ChildValue(w)


\* C11: is_cancelled() on a source and on every token taken from it is false
\* until request_cancel() has been called on that source and true from then
\* on (the flag never goes back); a default-constructed token cannot cancel
\* and never reports cancelled.
C11_SharedNow ==
  /\ \A s \in Sources : SourceIsCancelled(s) = (s \in c_requested)
  /\ \A i \in DOMAIN c_tokens :
       IF c_tokens[i] = NoState
         THEN ~CanCancel(c_tokens[i]) /\ ~TokenIsCancelled(c_tokens[i])
         ELSE /\ CanCancel(c_tokens[i])
              /\ TokenIsCancelled(c_tokens[i]) = (c_tokens[i] \in c_requested)
C11_StaysCancelled ==
  \A s \in Sources : SourceIsCancelled(s) => SourceIsCancelled(s)'
C11_CancelMonotonicShared == [](C11_SharedNow) /\ [][C11_StaysCancelled]_vars
C11_Witness ==
  \E i, j, k \in DOMAIN c_tokens :
    /\ c_tokens[i] = NoState
    /\ c_tokens[j] # NoState /\ TokenIsCancelled(c_tokens[j])
    /\ c_tokens[k] # NoState /\ ~TokenIsCancelled(c_tokens[k])

\* how often the job of call c has been posted to the scheduler
PostCount(c) == Cardinality({i \in DOMAIN t_posted : t_posted[i].call = c})

\* C12: timer entries are posted in deadline order: an entry scheduled with an
\* earlier deadline while the worker is already waiting on a later one is
\* posted before that later one, so the later one is never posted while the
\* earlier one is still in the queue.
C12_EarlierEntryPostedFirst ==
  \A i \in DOMAIN t_posted :
    \A e \in t_q : t_info[e.call].overtook # t_posted[i].call

\* C13: a timer job is never posted before its deadline: the clock reads at
\* least (time of the call + d) when the job is posted.
C13_NotBeforeDeadline ==
  \A i \in DOMAIN t_posted :
    t_posted[i].at >= t_info[t_posted[i].call].at + t_info[t_posted[i].call].d
C13_Witness ==
  \E i \in DOMAIN t_posted :
    /\ t_info[t_posted[i].call].d > 0
    /\ t_info[t_posted[i].call].at > 0

\* C14: for after(d, fn, ct): when ct is cancelled as the worker processes the
\* entry's deadline, fn is never posted nor run; when it is not cancelled
\* then, fn is posted exactly once (and run at most once).
C14_AfterPostedOnceUnlessCancelled ==
  \A c \in DOMAIN t_info :
    t_info[c].kind = "after" =>
      /\ PostCount(c) <= 1
      /\ t_info[c].ran <= PostCount(c)
      /\ t_info[c].checked = "cancelled" => PostCount(c) = 0 /\ t_info[c].ran = 0
      /\ (t_info[c].checked = "live" /\ ~(t_pc = "post" /\ t_next.call = c))
           => PostCount(c) = 1
C14_Witness ==
  \E c, l \in DOMAIN t_info :
    /\ t_info[c].kind = "after" /\ t_info[c].checked = "cancelled"
    /\ t_info[l].kind = "after" /\ t_info[l].checked = "live" /\ t_info[l].ran = 1

\* nothing holds the coroutine handle of sleeping call c any more: no queued
\* or held timer entry, no job in the scheduler
HandleHeldNowhere(c) ==
  /\ \A e \in t_q : e.call # c
  /\ t_next.call # c
  /\ \A i \in DOMAIN q : q[i] # TimerJob(c)
  /\ cur # TimerJob(c)

\* C15: a coroutine awaiting sleep_for(d, ct) with d > 0 whose token is
\* cancelled before the deadline finishes by failing with canceled: once the
\* worker has processed its deadline and nothing can resume it any more, it
\* is not still suspended.
C15_CancelledSleepFails ==
  \A c \in DOMAIN t_info :
    ( /\ t_info[c].kind = "sleep" /\ t_info[c].d > 0
      /\ t_info[c].early
      /\ t_info[c].checked # "no"
      /\ HandleHeldNowhere(c) )
    => t_info[c].st = "canceled"

\* what fn of job j produces: its return value or the exception it throws
FnOutcome(j) == IF p_jobs[j].throws THEN FnException(j) ELSE FnValue(j)

\* C16: submit<R>(fn, ct) checks the token on the worker right before fn:
\* cancelled then, fn is never invoked and the task fails with canceled; not
\* cancelled then, fn runs once and the task yields fn's result even when the
\* token is cancelled afterwards.
C16_TokenCheckedBeforeFn ==
  \A j \in DOMAIN p_jobs :
    p_jobs[j].kind = "task" =>
      /\ p_jobs[j].checked = "cancelled" =>
           /\ p_jobs[j].runs = 0
           /\ p_jobs[j].resumes > 0 => p_jobs[j].out = Canceled
      /\ p_jobs[j].checked = "live" =>
           /\ p_jobs[j].runs = 1
           /\ p_jobs[j].resumes > 0 => p_jobs[j].out = FnOutcome(j)
C16_Witness ==
  \E j, k \in DOMAIN p_jobs :
    /\ p_jobs[j].checked = "live" /\ TokenIsCancelled(p_jobs[j].ct)
    /\ p_jobs[j].resumes = 1 /\ p_jobs[j].out = FnValue(j)
    /\ p_jobs[k].checked = "cancelled" /\ p_jobs[k].out = Canceled

\* the handle of job j is not waiting in the scheduler
NotInScheduler(j) ==
  /\ \A i \in DOMAIN q : q[i] # HandleJob(PoolHandle(j))
  /\ cur # HandleJob(PoolHandle(j))

\* C17: the coroutine awaiting submit<R>(fn) is resumed exactly once, by the
\* scheduler thread running the posted handle, only after fn has finished on
\* a worker, and obtains fn's return value or the exception fn threw.
C17_ResumedNow ==
  \A j \in DOMAIN p_jobs :
    (p_jobs[j].kind = "task" /\ p_jobs[j].ct = NoState) =>
      /\ p_jobs[j].posts <= 1
      /\ p_jobs[j].resumes <= p_jobs[j].posts
      /\ (p_jobs[j].posts = 1 /\ NotInScheduler(j)) => p_jobs[j].resumes = 1
      /\ p_jobs[j].posts = 1 => p_jobs[j].fn_done
      /\ ~p_jobs[j].early
      /\ p_jobs[j].resumes = 1 => p_jobs[j].out = FnOutcome(j)
C17_ResumedByScheduler ==
  \A j \in DOMAIN p_jobs :
    (j \in DOMAIN p_jobs' /\ p_jobs'[j].resumes # p_jobs[j].resumes) =>
      /\ runPc = "injob" /\ cur = HandleJob(PoolHandle(j))
      /\ \A w \in Workers : p_wjob[w] # j
AllExited == \A w \in Workers : p_wpc[w] = "exit"

\* C18: every job accepted before stop() is executed exactly once, by one
\* worker, also when stop() is called while it is queued; a worker exits only
\* when stop has been requested and the queue is empty; after stop() every
\* worker eventually exits.
C18_ExecutedOnce ==
  /\ \A j \in DOMAIN p_jobs :
       /\ p_jobs[j].execs <= 1
       /\ Cardinality(p_jobs[j].by) = p_jobs[j].execs
       /\ (AllExited /\ p_jobs[j].accepted) => p_jobs[j].execs = 1
C18_ExitOnlyDrained ==
  \A w \in Workers :
    (p_wpc[w] # "exit" /\ p_wpc'[w] = "exit") => (p_stop /\ p_q = <<>>)
C18_DrainThenExit ==
  /\ [](C18_ExecutedOnce)
  /\ [][C18_ExitOnlyDrained]_vars
  /\ (p_stop ~> AllExited)
C18_Witness ==
  /\ AllExited
  /\ \E j \in DOMAIN p_jobs : p_jobs[j].queued_at_stop /\ p_jobs[j].execs = 1

\* C19: a job submitted after stop() has returned is never executed: enqueue
\* leaves the queue unchanged and no worker ever takes or runs it.
C19_NoJobAfterStop ==
  \A j \in DOMAIN p_jobs :
    p_jobs[j].after_stop =>
      /\ ~p_jobs[j].accepted
      /\ \A i \in DOMAIN p_q : p_q[i] # j
      /\ \A w \in Workers : p_wjob[w] # j
      /\ p_jobs[j].execs = 0 /\ p_jobs[j].runs = 0
C19_Witness ==
  /\ AllExited
  /\ \E j, k \in DOMAIN p_jobs :
       /\ p_jobs[j].after_stop
       /\ ~p_jobs[k].after_stop /\ p_jobs[k].execs = 1

\* C20: a coroutine suspended in async_wait that is resumed by the delivery
\* of a subscribed signal obtains that signal's number from async_wait.
C20_WaiterGetsDeliveredSignal ==
  \A a \in DOMAIN sg_wait :
    (sg_wait[a].via = "delivery" /\ sg_wait[a].out.kind = "value")
      => sg_wait[a].out.val = sg_wait[a].delivered

\* the signals async_wait calls took out of pending_, in the order taken
TakenSignals ==
  [n \in 1 .. TakenSoFar |->
     sg_wait[CHOOSE a \in DOMAIN sg_wait : sg_wait[a].ord = n].sig]

IsPrefix(short, long) ==
  /\ Len(short) <= Len(long)
  /\ \A i \in DOMAIN short : short[i] = long[i]

\* no async_wait call has been registered as waiter so far
NoWaiterEver ==
  \A a \in DOMAIN sg_wait :
    sg_wait[a].pc # "suspended" /\ sg_wait[a].via # "delivery"

\* C21: signals delivered while no waiter is registered are buffered and
\* handed to the following async_wait calls in delivery order: what the calls
\* have taken so far is the beginning of the sequence of delivered signals.
C21_BufferedInDeliveryOrder ==
  NoWaiterEver => IsPrefix(TakenSignals, sg_delivered)

Occurrences(seq, x) == Cardinality({i \in DOMAIN seq : seq[i] = x})

\* C22: the on_signal callback is invoked exactly once per delivered signal
\* with that signal's number, so it is never invoked with a number more often
\* than that number was delivered.
C22_HandlerOncePerDelivery ==
  \A s \in Signals : Occurrences(sg_handled, s) <= Occurrences(sg_delivered, s)

\* C23: a signal set has at most one registered waiter and a second
\* async_wait does not displace the first: every coroutine suspended in
\* async_wait is the registered waiter (or the one the running delivery step
\* has just taken).
C23_FirstWaiterKept ==
  \A a \in DOMAIN sg_wait :
    sg_wait[a].pc = "suspended" =>
      \/ sg_waiter_active /\ sg_waiter = a
      \/ sg_step.has_waiter /\ sg_step.waiter = a

\* the resumption of waiter a is waiting in the scheduler
ResumeQueued(a) ==
  \/ cur = SigResumeJob(a)
  \/ \E i \in DOMAIN q : q[i] = SigResumeJob(a)

\* C24: an async_wait whose token is cancelled when it resumes fails with
\* canceled instead of returning a number; with a token already cancelled at
\* suspension it is not registered as waiter but posted to the scheduler at
\* once, which resumes it without any signal.
C24_PostedNow ==
  \A a \in DOMAIN sg_wait :
    /\ sg_wait[a].pc = "posted" => ResumeQueued(a)
    /\ (sg_wait[a].via = "posted" /\ sg_wait[a].sig = 0) =>
         sg_wait[a].out.kind = "canceled"
C24_ResumeStep ==
  \A a \in DOMAIN sg_wait :
    /\ (sg_wait[a].pc # "done" /\ sg_wait'[a].pc = "done") =>
         (sg_wait'[a].out.kind = "canceled") = TokenIsCancelled(sg_wait'[a].ct)
    /\ (sg_wait[a].pc = "checking" /\ sg_wait'[a].pc # "checking"
          /\ TokenIsCancelled(sg_wait[a].ct)) =>
         /\ sg_wait'[a].pc = "posted"
         /\ sg_pending' = sg_pending
         /\ q' = Append(q, SigResumeJob(a))
C24_CancelledWaitFails == [](C24_PostedNow) /\ [][C24_ResumeStep]_vars
C24_Witness ==
  /\ sg_delivered = <<>>
  /\ \E a \in DOMAIN sg_wait :
       /\ sg_wait[a].pc = "done" /\ sg_wait[a].via = "posted"
       /\ sg_wait[a].out.kind = "canceled"

\* nothing is left to run: the owner is done with its task object, the
\* scheduler queue is empty and no coroutine has control
LifeQuiescent ==
  /\ l_pc = "gone"
  /\ q = <<>> /\ cur = NoJob
  /\ l_active = None

\* C25: every task frame is destroyed exactly once and never resumed or read
\* after destruction: a started (detached) frame without continuation
\* destroys itself at final suspend; an awaited or never-started frame is
\* alive at final suspend, still owned by its task object, which destroys it.
C25_FrameDestroyedOnce ==
  \A f \in LifeFrames :
    /\ l_destroys[f] <= 1
    /\ l_late[f] = 0
    /\ (l_fr[f].st = "destroyed") = (l_destroys[f] = 1)
    /\ l_fr[f].st = "final" =>
         l_owner[f] /\ (l_fr[f].continuation # None \/ ~l_fr[f].detached)
    /\ (l_fr[f].st = "destroyed" /\ l_fr[f].detached) =>
         l_fr[f].continuation = None /\ ~l_owner[f]
    /\ (LifeQuiescent /\ l_fr[f].st # "absent") => l_destroys[f] = 1
C25_Witness ==
  /\ LifeQuiescent
  /\ l_cfg.awaits /\ l_cfg.suspends
  /\ l_destroys[Top] = 1 /\ l_fr[Top].detached
  /\ l_destroys[Sub] = 1 /\ ~l_fr[Sub].detached



\* C26: an exception that escapes the body of a task launched with
\* spawn_detached or start() never leaves scheduler::run(): the callable that
\* resumes the task returns normally, the exception being stored in the task's
\* promise or dropped by the wrapper, and a job posted after the task is
\* still executed.
C26_ExceptionStaysInside ==
  /\ [](runPc # "threw")
  /\ (l_other = "queued") ~> (l_other = "ran")
C26_Witness ==
  /\ l_mode = "spawned"
  /\ l_cfg.throws
  /\ l_fr[Top].exception # None
  /\ l_fr[Wrap].st = "destroyed"
  /\ l_other = "ran"
  /\ \E i, j \in DOMAIN executed :
       /\ i < j
       /\ executed[i] = JobId(HandleJob(LifeH(Wrap)))
       /\ executed[j] = JobId(OtherJob)
C26_StartedWitness ==
  /\ l_mode = "started"
  /\ l_cfg.throws
  /\ l_fr[Top].exception # None
  /\ l_fr[Top].st = "destroyed"
  /\ l_other = "ran"

\* C27: two timer entries with the same deadline are posted to the scheduler
\* in the order of their sequence ids, also when the worker held one of them
\* and put it back into the queue for an earlier entry.
C27_TiesInIdOrder ==
  \A i, j \in DOMAIN t_posted :
    (/\ i < j
     /\ t_info[t_posted[i].call].when = t_info[t_posted[j].call].when)
      => t_info[t_posted[i].call].id < t_info[t_posted[j].call].id
C27_Witness ==
  \E i, j \in DOMAIN t_posted :
    /\ i < j
    /\ t_info[t_posted[i].call].when = t_info[t_posted[j].call].when
    /\ t_info[t_posted[i].call].putback

\* a call of after() / sleep_for() that reached timer::schedule after stop()
RefusedCall(c) ==
  /\ t_info[c].id = 0
  /\ ~(t_info[c].kind = "sleep" /\ t_info[c].d = 0)

\* C28: after timer.stop() the pending queue is empty and stays empty, calls
\* of after() / sleep_for() made afterwards insert nothing, and the worker
\* thread eventually exits, whether it was idle or waiting on a deadline.
C28_StopEmptiesAndEnds ==
  /\ [](t_stop => t_q = {})
  /\ t_stop ~> (t_pc = "exit")
C28_Witness ==
  /\ t_stop
  /\ t_pc = "exit"
  /\ t_next # NoEntry
  /\ t_q = {}
  /\ \E c \in DOMAIN t_info : RefusedCall(c)

\* C29: once stop() has been called, run() is eventually left, with every
\* callable terminating and finitely many posts: it returns, or the exception
\* of a throwing callable leaves it. This holds wherever the thread was when
\* stop() was called: not yet in run(), blocked on the empty queue, or
\* executing a job.
C29_StopEndsRun == stop_requested ~> (runPc \in {"returned", "threw"})
C29_Witness ==
  /\ stop_requested
  /\ runPc = "returned"
  /\ \E i \in DOMAIN executed : executed[i] \notin preStop
  /\ \E i \in DOMAIN executed : executed[i] \in preStop

\* the positions of a thread that is inside run()
InsideRun == {"lock", "exec", "injob", "exit"}

\* C30: at most one thread is inside scheduler::run() at any time: when a
\* second thread calls run() while the first is inside, the two are never
\* inside together, and never execute jobs at the same time.
C30_OneThreadInRun ==
  /\ ~(runPc \in InsideRun /\ runPc2 \in InsideRun)
  /\ ~(runPc = "injob" /\ runPc2 = "injob")

\* the timer entries that belong to call c, queued or held by the worker
EntriesOf(c) == {e \in t_q \cup {t_next} : e.call = c}

\* C31: sleep_for with duration zero inserts no timer entry and is never
\* posted by the timer: it completes within the call, with canceled when its
\* token is already cancelled at that moment and normally otherwise.
C31_ZeroSleepCompletesAtOnce ==
  /\ [](\A c \in DOMAIN t_info :
          (t_info[c].kind = "sleep" /\ t_info[c].d = 0) =>
            /\ t_info[c].id = 0
            /\ EntriesOf(c) = {}
            /\ PostCount(c) = 0
            /\ t_info[c].st \in {"done", "canceled"})
  /\ [][\A c \in DOMAIN t_info' \ DOMAIN t_info :
          (t_info'[c].kind = "sleep" /\ t_info'[c].d = 0) =>
            /\ t_q' = t_q
            /\ t_info'[c].st = IF TokenIsCancelled(t_info'[c].ct)
                                 THEN "canceled" ELSE "done"]_vars
C31_Witness ==
  \E c, e \in DOMAIN t_info :
    /\ t_info[c].kind = "sleep" /\ t_info[c].d = 0
    /\ t_info[c].ct # NoState /\ t_info[c].st = "canceled"
    /\ t_info[e].kind = "sleep" /\ t_info[e].d = 0
    /\ t_info[e].st = "done"

\* C32: a task body does not run at construction nor inside start(): while
\* the owner has not called start() every existing frame is at its initial
\* suspend; start() leaves the frame there, empties the task object and
\* appends exactly one resumption job (nothing at all for an empty task); the
\* body leaves the initial suspend only when run() executes that job or when
\* the task is awaited.
C32_BodyStartsLazily ==
  /\ [](l_pc = "fresh" =>
          \A f \in LifeFrames : l_fr[f].st \in {"initial", "absent"})
  /\ [][(l_pc = "fresh" /\ l_pc' = "started") =>
          IF l_owner[Top]
            THEN /\ q' = Append(q, HandleJob(LifeH(Top)))
                 /\ l_fr'[Top].st = "initial"
                 /\ ~l_owner'[Top]
            ELSE /\ q' = q
                 /\ l_fr' = l_fr]_vars
  /\ [][(l_fr[Top].st = "initial" /\ l_fr'[Top].st = "running") =>
          \/ Resuming(LifeH(Top))
          \/ (l_active = Wrap /\ l_fr'[Top].continuation = Wrap)]_vars
C32_Witness ==
  /\ l_mode = "started"
  /\ l_pc = "gone"
  /\ l_fr[Top].st = "initial"
  /\ ~l_owner[Top]
  /\ \E i \in DOMAIN q : q[i] = HandleJob(LifeH(Top))
  /\ l_other = "queued"

\* a frame f starts being awaited: its continuation is set
AwaitBegins(f) == l_fr[f].continuation = None /\ l_fr'[f].continuation # None
\* an awaited frame f passes its final suspend
AwaitedEnds(f) == l_fr[f].st = "atfinal" /\ l_fr'[f].st = "final"

\* C33: awaiting a child task appends nothing to the scheduler queue: the
\* await transfers control to the child within the running job, and the
\* child's final suspend transfers it back to the awaiting coroutine, the
\* queue and the job being executed staying as they are.
C33_AwaitBypassesQueue ==
  /\ [][\A f \in LifeFrames : AwaitBegins(f) =>
          /\ q' = q
          /\ runPc' = runPc /\ cur' = cur
          /\ l_active' = f
          /\ l_fr'[f].st = "running"]_vars
  /\ [][\A f \in LifeFrames : AwaitedEnds(f) =>
          /\ q' = q
          /\ runPc' = runPc /\ cur' = cur
          /\ l_active' = l_fr[f].continuation
          /\ l_fr'[l_fr[f].continuation].st = "running"]_vars
C33_Witness ==
  /\ l_cfg.awaits
  /\ l_fr[Sub].st = "final"
  /\ l_fr[Top].st = "running"
  /\ l_active = Top
  /\ l_other = "queued"
  /\ q = <<OtherJob>>

\* the children that finish without suspending
Immediate == {i \in Indices : ~w_cfg[i].suspends}
Least(S) == CHOOSE i \in S : \A j \in S : i <= j
IsRunnerJob(id) == id[1][1] = "runner"

\* C34: the runners of when_any are first resumed in argument order, so the
\* child that wins the compare-exchange is the lowest-indexed child that
\* finishes without suspending, whenever there is one: it beats every later
\* child and every child that suspends, and its index is what the awaiting
\* coroutine receives.
C34_ImmediateChildWins ==
  /\ \A k, l \in DOMAIN executed :
       (k < l /\ IsRunnerJob(executed[k]) /\ IsRunnerJob(executed[l]))
         => executed[k][1][2] < executed[l][1][2]
  /\ (w_posts # <<>> /\ Immediate # {}) =>
       /\ w_posts[1] = Least(Immediate)
       /\ any_st.index = Least(Immediate)
  /\ (w_out.kind = "value" /\ Immediate # {}) =>
       w_out.val.index = Least(Immediate)
C34_Witness ==
  /\ w_n = 3
  /\ w_cfg[0].suspends /\ ~w_cfg[1].suspends /\ ~w_cfg[2].suspends
  /\ w_out.kind = "value"
  /\ w_out.val.index = 1
  /\ Len(w_finish) = 3

\* the jobs in the queue
Queued == {q[k] : k \in DOMAIN q}
\* the runner of child i has been posted: its job is queued, is being
\* executed, or has been executed
RunnerPosted(i) ==
  \/ HandleJob(RunnerH(i)) \in Queued
  \/ cur = HandleJob(RunnerH(i))
  \/ JobId(HandleJob(RunnerH(i))) \in ExecutedSet

\* C35: the coroutine awaiting when_all is not resumed, nor posted for
\* resumption, before every child runner has been posted: the launch (its
\* await_suspend) posts all runners and returns to run() with no child
\* finished and no continuation posted.
C35_LaunchPostsAllFirst ==
  /\ []((w_posts # <<>> \/ w_finish # <<>> \/ w_resumes > 0) =>
          /\ w_ppc \in {"waiting", "resumed"}
          /\ \A i \in Indices : RunnerPosted(i))
  /\ [][(w_ppc = "scheduled" /\ w_ppc' = "waiting") =>
          /\ \A i \in Indices : HandleJob(RunnerH(i)) \in Queued'
          /\ HandleJob(Parent) \notin Queued'
          /\ w_finish' = <<>> /\ w_posts' = <<>> /\ w_resumes' = 0
          /\ runPc' = "lock"]_vars
C35_Witness ==
  /\ w_n = 3
  /\ w_resumes = 1
  /\ \A i \in Indices : ~w_cfg[i].suspends
  /\ w_posts = <<2>>

\* the async_wait calls that consumed a delivery of signal s: resumed as the
\* registered waiter for it, or took it out of pending_
Consumers(s) ==
  {a \in DOMAIN sg_wait :
     \/ sg_wait[a].via = "delivery" /\ sg_wait[a].delivered = s
     \/ sg_wait[a].ord > 0 /\ sg_wait[a].sig = s}

\* C36: each delivered signal is consumed by at most one async_wait: once a
\* delivery was handed to the registered waiter it is not in the buffer any
\* more, so the calls that consumed a signal are never more than its
\* deliveries.
C36_DeliveryConsumedOnce ==
  \A s \in Signals : Cardinality(Consumers(s)) <= Occurrences(sg_delivered, s)

\* call c put an entry into the timer queue
Accepted(c) == c \in DOMAIN t_info /\ t_info[c].id > 0
\* some accepted deadline lies beyond the last observed clock reading
BeyondClock == \E c \in DOMAIN t_info : t_info[c].id > 0 /\ t_info[c].when > MaxTime

\* C37: without stop() and cancellation no timer entry is lost or duplicated:
\* an accepted entry is at every moment in exactly one place (in the queue,
\* held by the worker, or posted once), also after the worker put it back for
\* an earlier one, and it is eventually posted once the clock has passed the
\* deadlines.
C37_EntryPostedOnce ==
  /\ [](\A c \in DOMAIN t_info :
          /\ PostCount(c) <= 1
          /\ Cardinality(EntriesOf(c)) <= 1
          /\ (t_info[c].id > 0 /\ ~t_stop) =>
               Cardinality(EntriesOf(c)) + PostCount(c) = 1)
  /\ \A c \in 1 .. MaxCoreTimers :
       Accepted(c) ~> (PostCount(c) = 1 \/ t_stop \/ BeyondClock)
C37_Witness ==
  /\ ~t_stop /\ ~BeyondClock
  /\ Len(t_info) = MaxCoreTimers
  /\ \A c \in DOMAIN t_info : t_info[c].id > 0 /\ PostCount(c) = 1
  /\ \E c \in DOMAIN t_info : t_info[c].putback

\* C38: building the result of when_any dereferences only result slots that
\* have been populated: no empty slot of a child that has not finished (or
\* that threw) is read when the parent is resumed.
C38_OnlyPopulatedSlotsRead ==
  w_out.kind = "value" => w_out.val.emptyread = {}

\* C39: an exception thrown by a fire-and-forget job is swallowed by the
\* worker that ran it: the worker is back at the wait of its loop right after
\* the job, no worker ever leaves the loop with jobs queued, and every job
\* queued behind a job that threw is executed.
ThrewInPool(j) ==
  IF j \in DOMAIN p_jobs
    THEN p_jobs[j].kind = "plain" /\ p_jobs[j].throws /\ p_jobs[j].fn_done
    ELSE FALSE
QueuedBehind(j, k) ==
  IF k \in DOMAIN p_jobs THEN j < k /\ ThrewInPool(j) /\ p_jobs[k].accepted
                          ELSE FALSE
ExecutedInPool(k) == IF k \in DOMAIN p_jobs THEN p_jobs[k].execs > 0 ELSE FALSE
C39_WorkerSurvives ==
  \A w \in Workers :
    (p_wpc[w] = "infn" /\ p_jobs[p_wjob[w]].kind = "plain"
       /\ p_jobs[p_wjob[w]].throws /\ p_jobs'[p_wjob[w]].fn_done)
      => /\ p_wpc'[w] = "wait"
         /\ p_q' = p_q
         /\ q' = q
C39_WorkerLoops ==
  \A w \in Workers : p_wpc[w] \in {"wait", "start", "infn", "post", "exit"}
C39_ThrownJobSwallowed ==
  /\ [](C39_WorkerLoops)
  /\ [][C39_WorkerSurvives]_vars
  /\ \A j \in 1 .. MaxPoolJobs : \A k \in 1 .. MaxPoolJobs :
       QueuedBehind(j, k) ~> ExecutedInPool(k)
\* the worker that ran a throwing job has since executed a later job
C39_Witness ==
  \E w \in Workers : \E j \in DOMAIN p_jobs : \E k \in DOMAIN p_jobs :
    /\ j < k
    /\ ThrewInPool(j)
    /\ p_jobs[j].by = {w}
    /\ p_jobs[k].by = {w}
    /\ p_jobs[k].fn_done

\* C40: when_all resumes its awaiting coroutine once all children have
\* finished, for every number of children N >= 0: the coroutine suspended in
\* when_all_awaitable with no child left unfinished is eventually resumed, a
\* when_all over zero tasks included.
AllChildrenFinished == w_ppc = "waiting" /\ \A i \in Indices : w_cpc[i] = "done"
C40_AllEventuallyResumes == AllChildrenFinished ~> (w_ppc = "resumed")
\* the same for at least one child: the last runner's count-down posts the parent
C40_NonEmptyResumes == (w_n >= 1 /\ AllChildrenFinished) ~> (w_ppc = "resumed")
\* a when_all over zero tasks suspended with nothing queued
C40_EmptyStuck == w_n = 0 /\ w_ppc = "waiting" /\ q = <<>> /\ all_st.remaining = 0
====
